---- MODULE Spec2Model ----
(***************************************************************************)
(* Request admission and metering plane of the SupplyChain API service:    *)
(* the Redis-backed and the in-process rate/quota enforcers, API-key       *)
(* authentication, and the Stripe webhook handler.                         *)
(***************************************************************************)
EXTENDS Integers, Sequences, FiniteSets, TLC

(***************************************************************************)
(* Bounds of the model.                                                    *)
(***************************************************************************)
MaxReq == 2             \* HTTP requests of one behaviour (each runs once)
MaxTicks == 1           \* Tick steps of one behaviour
MonthStartMinute == 1   \* minute (from clock 0) at which the next month begins
MaxDeliveries == 3      \* webhook deliveries with a valid signature of one behaviour
MaxFlushes == 2         \* runs of FlushOnce of one behaviour
IdLen == 2              \* characters of a key id (12 in GenerateAPIKey)
SecretLen == 2          \* characters of a key secret (32 in GenerateAPIKey)

(***************************************************************************)
(* Program constants.                                                      *)
(***************************************************************************)
Minute == 60
liteRPM == 20
requestsPerMinute == 2
liteMonthlyQuota == 450000
proRPM == 60
proMonthlyQuota == 1350000
trialTotalAllowed == 10
RedisTrialCap == 10
TrialRetryAfter == 3600

ClockStep == Minute         \* seconds the wall clock advances per Tick
Reqs == 1 .. MaxReq
Accounts == {"a1"}
KeyIDs == {"k1", "k2"}      \* key_prefix values of the api_keys table
APIKeys == {"k1"}           \* the keys whose requests pass through the enforcers
KeyAccount == [k \in KeyIDs |-> "a1"]
Methods == {"GET"}
Paths == {"/v1/alerts", "/v1/me"}
PlanCodes == {"lite", "pro"}
SubStatuses == {"none", "trialing", "active"}
Backends == {"redis", "mem"}

MaxClock == MaxTicks * ClockStep
MonthStart == MonthStartMinute * Minute
MonthSeconds == 30 * 24 * 60 * Minute

Max(a, b) == IF a > b THEN a ELSE b

\* strings.ToLower on the plan codes the model presents
ToLower(s) == CASE s = "PRO" -> "pro" [] s = "Pro" -> "pro" [] s = "LITE" -> "lite" [] OTHER -> s

\* monthKey: t.Format("200601"); the model's horizon spans months 0 and 1
monthKey(t) == IF t < MonthStart THEN 0 ELSE 1

\* time.Date(now.Year(), now.Month(), 1, ...) and the first of the next month
PeriodStart(t) == IF t < MonthStart THEN MonthStart - MonthSeconds ELSE MonthStart
PeriodEnd(t) == PeriodStart(t) + MonthSeconds

\* Manager.PlanLimits
PlanLimits(planCode) ==
    IF ToLower(planCode) = "pro"
    THEN [rpm |-> proRPM, monthly |-> proMonthlyQuota]
    ELSE [rpm |-> liteRPM, monthly |-> liteMonthlyQuota]

\* RateQuotaEnforcer's plan limits, from the package constants
MemPlanLimits(planCode) ==
    IF ToLower(planCode) = "pro"
    THEN [rpm |-> proRPM, monthly |-> proMonthlyQuota]
    ELSE [rpm |-> liteRPM, monthly |-> liteMonthlyQuota]

\* redis GET ... .Int(): a missing key reads as 0
Get(f, key) == IF key \in DOMAIN f THEN f[key] ELSE 0

\* redis INCR
Incr(f, key) == [x \in DOMAIN f \cup {key} |-> IF x = key THEN Get(f, key) + 1 ELSE f[x]]

\* removal of keys (TTL expiry, EXPIRE with a non-positive TTL)
Drop(f, keys) == [x \in DOMAIN f \ keys |-> f[x]]

VARIABLES
    clock,          \* wall clock, seconds
    backend,        \* "redis": rlManager != nil in main; "mem": in-process fallback
    redisUp,        \* FALSE while calls to the counter store fail
    subs,           \* subscriptions table: account -> [status, plan, overage]
    rl,             \* redis rl:{key}:{METHOD}:{PATH}:{window} -> [count, exp]
    qt,             \* redis quota:{key}:{YYYYMM}:total -> count
    qe,             \* redis quota:{key}:{YYYYMM}:ep:{METHOD}:{PATH} -> count
    trial,          \* redis trial:{account}:used -> count
    buckets,        \* rqState.buckets: bucket key -> pointer into bheap
    usageByAK,      \* rqState.usageByAK: api key -> pointer into uheap
    usageByAC,      \* rqState.usageByAC: account -> pointer into uheap
    bheap,          \* allocated bucket objects
    uheap,          \* allocated usage objects
    req,            \* per request: position in the middleware chain and locals
    resp,           \* the response written by the last step, if any
    rlPassed,       \* history: rate window -> plan -> requests that passed the rate check
    admitted,       \* history: (key, month) -> admitted requests by plan and overage flag
    trialAdmitted   \* history: account -> requests admitted while it had no subscription

VARIABLES
    api_keys,       \* api_keys table: key_prefix -> [status, key_hash]
    cfg,            \* config.AuthConfig: [RequireAPIKeys, EnableAgentHeader]
    ctxDB,          \* TRUE when the request context carries a configured database
    dbUp,           \* FALSE while statements on the database fail
    ares            \* what APIKeyAuth did with the last request

VARIABLES
    stripeIDs,          \* subscriptions table: account -> [customer, subscription]
    processed_events,   \* processed_events table: event id -> number of rows
    meterCalls,         \* calls of meteredUsageCreate, in order
    delivered,          \* history: event id -> deliveries handled with a valid signature
    hres                \* what stripeWebhook did with the last delivery

VARIABLES
    usage_aggregates,   \* usage_aggregates table: <<account, key, period_start>> -> row
    agg,                \* the aggregator goroutine: position in its loop and FlushOnce's locals
    ctxDone,            \* TRUE once main's context is cancelled
    flushLog            \* history: one record per FlushOnce that has returned

VARIABLES
    keygen          \* one key on its way through GenerateAPIKey and ParseAPIKey

VARIABLES
    clients,        \* RateLimit's map: client IP -> times of the requests it let pass
    limReq,            \* per request of the RateLimit middleware: position and locals
    limOverlap,     \* history: TRUE once two requests were inside RateLimit together
    limFatal        \* TRUE once the runtime stopped the process on a racing map access

gateVars == <<clock, backend, redisUp, subs, rl, qt, qe, trial, buckets, usageByAK,
              usageByAC, bheap, uheap, req, resp, rlPassed, admitted, trialAdmitted>>

authVars == <<api_keys, cfg, ctxDB, dbUp, ares>>

hookVars == <<stripeIDs, processed_events, meterCalls, delivered, hres>>

aggVars == <<usage_aggregates, agg, ctxDone, flushLog>>

keyVars == <<keygen>>

limVars == <<clients, limReq, limOverlap, limFatal>>

vars == <<gateVars, authVars, hookVars, aggVars, keyVars, limVars>>

(***************************************************************************)
(* Principal resolution.                                                    *)
(***************************************************************************)
NoPrincipal == [AccountID |-> "", APIKeyID |-> "", PlanCode |-> "", OverageEnabled |-> FALSE]

\* s.status IN ('active','trialing')
ActiveOrTrialing(status) == status \in {"active", "trialing"}

\* the subscription checker main injects: SELECT 1 FROM subscriptions WHERE account_id=$1
\* AND status IN ('active','trialing')
subscriptionActiveCheck(a) == a \in DOMAIN subs /\ ActiveOrTrialing(subs[a].status)

\* the row LookupAPIKey's query yields for an active key: LEFT JOIN of the account's
\* active-or-trialing subscription, COALESCE(plan_code,'lite'), COALESCE(overage_enabled,false)
KeyJoinRow(k) ==
    LET a == KeyAccount[k]
        s == subs[a]
    IN  [AccountID |-> a, APIKeyID |-> k,
         PlanCode |-> IF ActiveOrTrialing(s.status) THEN s.plan ELSE "lite",
         OverageEnabled |-> IF ActiveOrTrialing(s.status) THEN s.overage ELSE FALSE]

(***************************************************************************)
(* Requests.                                                                *)
(***************************************************************************)
NoHeaders == <<>>

IdleReq ==
    [pc |-> "idle", p |-> NoPrincipal, method |-> "", path |-> "", now |-> 0,
     rpm |-> 0, monthly |-> 0, reset |-> 0, b |-> 0, u |-> 0, ua |-> 0,
     status |-> 0, reason |-> "", retryAfter |-> 0, hdr |-> NoHeaders,
     active |-> FALSE, handlerStatus |-> 0]

GoneReq == [IdleReq EXCEPT !.pc = "gone"]

\* a request moves on; once its response is complete it leaves the chain. resp is
\* the response written by the step just taken (with the locals of its request),
\* IdleReq when the step wrote none
Step(r, nr) ==
    IF nr.pc = "done"
    THEN req' = [req EXCEPT ![r] = GoneReq] /\ resp' = nr
    ELSE req' = [req EXCEPT ![r] = nr] /\ resp' = IdleReq

\* write429 after Retry-After was set, and the return that follows it
DenyMutant(rq, why, retry) ==
    [rq EXCEPT !.pc = "handler", !.status = 429, !.reason = why, !.retryAfter = retry]
Deny(rq, why, retry) ==
    [rq EXCEPT !.pc = "done", !.status = 429, !.reason = why, !.retryAfter = retry]

\* secondsUntil(t): int(time.Until(t).Seconds()), floored at 0
secondsUntil(t) == Max(0, t - clock)

(***************************************************************************)
(* History variables' updates.                                              *)
(***************************************************************************)
ZeroByPlan == [lite |-> 0, pro |-> 0]
ZeroAdmitted == [lite |-> 0, pro |-> 0, ov |-> 0]

PlanField(planCode) == IF ToLower(planCode) = "pro" THEN "pro" ELSE "lite"

NotePassed(h, rk, planCode) ==
    LET old == IF rk \in DOMAIN h THEN h[rk] ELSE ZeroByPlan
        f == PlanField(planCode)
    IN  [x \in DOMAIN h \cup {rk} |-> IF x = rk THEN [old EXCEPT ![f] = @ + 1] ELSE h[x]]

NoteAdmitted(h, km, p) ==
    LET old == IF km \in DOMAIN h THEN h[km] ELSE ZeroAdmitted
        f == IF p.OverageEnabled THEN "ov" ELSE PlanField(p.PlanCode)
    IN  [x \in DOMAIN h \cup {km} |-> IF x = km THEN [old EXCEPT ![f] = @ + 1] ELSE h[x]]

NoteTrialAdmitted(h, a, active) ==
    IF active \/ a \notin DOMAIN h THEN h ELSE [h EXCEPT ![a] = @ + 1]

(***************************************************************************)
(* RedisRateQuotaEnforcer and the Manager methods it calls.                 *)
(***************************************************************************)
memVars == <<buckets, usageByAK, usageByAC, bheap, uheap>>
redisVars == <<rl, qt, qe, trial>>
histVars == <<rlPassed, admitted, trialAdmitted>>
envVars == <<clock, backend, redisUp, subs>>

\* CheckRate's verdict on the post-increment count
RateAllowedMutant(count, rpm) == ~(count > rpm + 1)
RateAllowed(count, rpm) == ~(count > rpm)

\* a request enters the enforcer with the principal APIKeyAuth attached
Begin(r, k, method, path) ==
    /\ req[r].pc = "idle"
    /\ IF r = 1 THEN TRUE ELSE req[r - 1].pc # "idle"
    /\ LET p == KeyJoinRow(k)
           lim == IF backend = "redis" THEN PlanLimits(p.PlanCode) ELSE MemPlanLimits(p.PlanCode)
       IN  Step(r, [req[r] EXCEPT !.pc = IF backend = "redis" THEN "rate" ELSE "mcheck",
                          !.p = p, !.method = method, !.path = path, !.now = clock,
                          !.rpm = lim.rpm, !.monthly = lim.monthly])
    /\ UNCHANGED <<envVars, redisVars, memVars, histVars, authVars, hookVars, aggVars, keyVars, limVars>>

\* m.CheckRate: INCR and EXPIRE of the window's key in one transaction
CheckRate(r) ==
    LET rq == req[r]
        window == clock \div Minute
        rk == <<rq.p.APIKeyID, rq.method, rq.path, window>>
        count == (IF rk \in DOMAIN rl THEN rl[rk].count ELSE 0) + 1
    IN  /\ rq.pc = "rate"
        /\ IF ~redisUp
           THEN \* err != nil: the enforcer goes on to the quota check
                /\ Step(r, [rq EXCEPT !.pc = "quota"])
                /\ UNCHANGED <<rl, rlPassed>>
           ELSE /\ rl' = [x \in DOMAIN rl \cup {rk} |->
                            IF x = rk THEN [count |-> count, exp |-> clock + Minute] ELSE rl[x]]
                /\ IF RateAllowed(count, rq.rpm)
                   THEN /\ Step(r, [rq EXCEPT !.pc = "quota"])
                        /\ rlPassed' = NotePassed(rlPassed, rk, rq.p.PlanCode)
                   ELSE /\ Step(r, [Deny(rq, "rate", Minute - (clock % Minute))
                                    EXCEPT !.reset = Minute - (clock % Minute)])
                        /\ UNCHANGED rlPassed
        /\ UNCHANGED <<envVars, qt, qe, trial, memVars, admitted, trialAdmitted,
                     authVars, hookVars, aggVars, keyVars, limVars>>

\* m.GetQuota
GetQuota(k, now) == IF redisUp THEN Get(qt, <<k, monthKey(now)>>) ELSE 0

\* the test of the quota pre-check
QuotaExceededMutant(q, monthly) == q > monthly
QuotaExceeded(q, monthly) == q >= monthly

\* the pre-check runs only for a principal without overage
QuotaEnforcedMutant(p) == TRUE
QuotaEnforced(p) == ~p.OverageEnabled

\* quota pre-check, only when overage is disabled
QuotaCheck(r) ==
    LET rq == req[r]
        q == GetQuota(rq.p.APIKeyID, rq.now)
    IN  /\ rq.pc = "quota"
        /\ Step(r, IF QuotaEnforced(rq.p) /\ QuotaExceeded(q, rq.monthly)
                THEN Deny(rq, "quota", secondsUntil(PeriodEnd(rq.now)))
                ELSE [rq EXCEPT !.pc = "trial"])
        /\ UNCHANGED <<envVars, redisVars, memVars, histVars, authVars, hookVars, aggVars, keyVars, limVars>>

\* m.GetTrialUsage
GetTrialUsage(a) == IF redisUp THEN Get(trial, a) ELSE 0

\* trial cap, enforced only without an active or trialing subscription; a request
\* that passes it is admitted: next.ServeHTTP is called
TrialCheck(r) ==
    LET rq == req[r]
        a == rq.p.AccountID
        active == subscriptionActiveCheck(a)
        trialUsed == GetTrialUsage(a)
    IN  /\ rq.pc = "trial"
        /\ IF ~active /\ trialUsed >= RedisTrialCap
           THEN /\ Step(r, [Deny(rq, "trial", TrialRetryAfter) EXCEPT !.active = active])
                /\ UNCHANGED <<admitted, trialAdmitted>>
           ELSE /\ Step(r, [rq EXCEPT !.pc = "handler", !.active = active])
                /\ admitted' = NoteAdmitted(admitted, <<rq.p.APIKeyID, monthKey(rq.now)>>, rq.p)
                /\ trialAdmitted' = NoteTrialAdmitted(trialAdmitted, a, active)
        /\ UNCHANGED <<envVars, redisVars, memVars, rlPassed, authVars, hookVars, aggVars, keyVars, limVars>>

\* next.ServeHTTP returns with the handler's status st, then m.IncQuota: INCR and
\* EXPIRE of the total and the per-endpoint key; the TTL is the time left until the
\* first of the month after now, and a TTL that is not positive removes the key
IncQuota(r, st) ==
    LET rq == req[r]
        totalKey == <<rq.p.APIKeyID, monthKey(rq.now)>>
        epKey == <<rq.p.APIKeyID, monthKey(rq.now), rq.method, rq.path>>
        exp == PeriodEnd(rq.now) - clock
    IN  /\ rq.pc = "handler"
        /\ Step(r, [rq EXCEPT !.pc = "inct", !.status = st, !.handlerStatus = st])
        /\ IF ~redisUp
           THEN UNCHANGED <<qt, qe>>
           ELSE /\ qt' = IF exp > 0 THEN Incr(qt, totalKey) ELSE Drop(qt, {totalKey})
                /\ qe' = IF exp > 0 THEN Incr(qe, epKey) ELSE Drop(qe, {epKey})
        /\ UNCHANGED <<envVars, rl, trial, memVars, histVars, authVars, hookVars, aggVars, keyVars, limVars>>

\* m.IncTrialUsage
IncTrialUsage(r) ==
    LET rq == req[r]
    IN  /\ rq.pc = "inct"
        /\ Step(r, [rq EXCEPT !.pc = "hdr"])
        /\ trial' = IF redisUp THEN Incr(trial, rq.p.AccountID) ELSE trial
        /\ UNCHANGED <<envVars, rl, qt, qe, memVars, histVars, authVars, hookVars, aggVars, keyVars, limVars>>

\* headers snapshot after the increments
RedisHeaders(r) ==
    LET rq == req[r]
        q == GetQuota(rq.p.APIKeyID, rq.now)
    IN  /\ rq.pc = "hdr"
        /\ Step(r, [rq EXCEPT !.pc = "done",
                !.hdr = [rlLimit |-> rq.rpm, rlRemaining |-> "-", rlReset |-> rq.reset,
                         qLimit |-> rq.monthly, qRemaining |-> Max(0, rq.monthly - q),
                         qReset |-> secondsUntil(PeriodEnd(rq.now))]])
        /\ UNCHANGED <<envVars, redisVars, memVars, histVars, authVars, hookVars, aggVars, keyVars, limVars>>

(***************************************************************************)
(* RateQuotaEnforcer: the in-process fallback. rqState's maps hold pointers;*)
(* a request keeps the pointers it read under the first lock.               *)
(***************************************************************************)
NewBucket(now) == [windowStart |-> now, count |-> 0, passed |-> ZeroByPlan]

NewUsage(now) ==
    [periodStart |-> PeriodStart(now), periodEnd |-> PeriodEnd(now),
     perEndpoint |-> <<>>, total |-> 0, trialUsed |-> 0]

\* the rate test on the bucket's count, before the reservation
MemRateExceeded(count, rpm) == count >= rpm

\* first critical section: bucket and usage lookup, the three checks, the reservation
MemCheck(r) ==
    LET rq == req[r]
        k == rq.p.APIKeyID
        a == rq.p.AccountID
        now == rq.now
        bucketKey == <<k, rq.method, rq.path>>
        needB == bucketKey \notin DOMAIN buckets
                    \/ now - bheap[buckets[bucketKey]].windowStart >= Minute
        bheap1 == IF needB THEN Append(bheap, NewBucket(now)) ELSE bheap
        b == IF needB THEN Len(bheap) + 1 ELSE buckets[bucketKey]
        needU == k \notin DOMAIN usageByAK
                    \/ uheap[usageByAK[k]].periodStart # PeriodStart(now)
        uheap1 == IF needU THEN Append(uheap, NewUsage(now)) ELSE uheap
        u == IF needU THEN Len(uheap) + 1 ELSE usageByAK[k]
        needUA == a \notin DOMAIN usageByAC
                    \/ uheap[usageByAC[a]].periodStart # PeriodStart(now)
        uheap2 == IF needUA THEN Append(uheap1, NewUsage(now)) ELSE uheap1
        ua == IF needUA THEN Len(uheap1) + 1 ELSE usageByAC[a]
        active == subscriptionActiveCheck(a)
        rq1 == [rq EXCEPT !.b = b, !.u = u, !.ua = ua, !.active = active]
    IN  /\ rq.pc = "mcheck"
        /\ buckets' = [x \in DOMAIN buckets \cup {bucketKey} |->
                            IF x = bucketKey THEN b ELSE buckets[x]]
        /\ usageByAK' = [x \in DOMAIN usageByAK \cup {k} |-> IF x = k THEN u ELSE usageByAK[x]]
        /\ usageByAC' = [x \in DOMAIN usageByAC \cup {a} |-> IF x = a THEN ua ELSE usageByAC[x]]
        /\ uheap' = uheap2
        /\ IF uheap2[ua].trialUsed >= trialTotalAllowed
           THEN /\ Step(r, Deny(rq1, "trial", TrialRetryAfter))
                /\ bheap' = bheap1
                /\ UNCHANGED <<admitted, trialAdmitted>>
           ELSE IF uheap2[u].total >= rq.monthly /\ ~rq.p.OverageEnabled
           THEN /\ Step(r, Deny(rq1, "quota", secondsUntil(PeriodEnd(now))))
                /\ bheap' = bheap1
                /\ UNCHANGED <<admitted, trialAdmitted>>
           ELSE IF MemRateExceeded(bheap1[b].count, rq.rpm)
           THEN /\ Step(r, Deny(rq1, "rate", Minute - (now - bheap1[b].windowStart)))
                /\ bheap' = bheap1
                /\ UNCHANGED <<admitted, trialAdmitted>>
           ELSE /\ Step(r, [rq1 EXCEPT !.pc = "mhandler"])
                /\ bheap' = [bheap1 EXCEPT ![b] =
                        [@ EXCEPT !.count = @ + 1, !.passed[PlanField(rq.p.PlanCode)] = @ + 1]]
                /\ admitted' = NoteAdmitted(admitted, <<k, monthKey(now)>>, rq.p)
                /\ trialAdmitted' = NoteTrialAdmitted(trialAdmitted, a, active)
        /\ UNCHANGED <<envVars, redisVars, rlPassed, authVars, hookVars, aggVars, keyVars, limVars>>

\* next.ServeHTTP returns with the handler's status st, then the second critical
\* section: usage increments on the objects read earlier, headers
MemPost(r, st) ==
    LET rq == req[r]
        epKey == <<rq.method, rq.path>>
        uheap1 == [uheap EXCEPT ![rq.u] =
                    [@ EXCEPT !.total = @ + 1, !.perEndpoint = Incr(@, epKey)]]
        uheap2 == [uheap1 EXCEPT ![rq.ua] = [@ EXCEPT !.trialUsed = @ + 1]]
        b == bheap[rq.b]
    IN  /\ rq.pc = "mhandler"
        /\ uheap' = uheap2
        /\ Step(r, [rq EXCEPT !.pc = "done", !.status = st, !.handlerStatus = st,
                !.hdr = [rlLimit |-> rq.rpm, rlRemaining |-> Max(0, rq.rpm - b.count),
                         rlReset |-> Minute - (clock - b.windowStart),
                         qLimit |-> rq.monthly,
                         qRemaining |-> Max(0, rq.monthly - uheap2[rq.u].total),
                         qReset |-> uheap2[rq.u].periodEnd - rq.now]])
        /\ UNCHANGED <<envVars, redisVars, buckets, usageByAK, usageByAC, bheap, histVars,
                     authVars, hookVars, aggVars, keyVars, limVars>>

(***************************************************************************)
(* Environment of the enforcers: time and the subscriptions table.          *)
(***************************************************************************)
\* time passes; redis removes the keys whose TTL ran out (rate keys 60 s after their
\* last INCR, monthly keys at the end of their month)
Tick ==
    /\ clock + ClockStep <= MaxClock
    /\ clock' = clock + ClockStep
    /\ rl' = Drop(rl, {x \in DOMAIN rl : rl[x].exp <= clock'})
    /\ qt' = Drop(qt, {x \in DOMAIN qt : x[2] < monthKey(clock')})
    /\ qe' = Drop(qe, {x \in DOMAIN qe : x[2] < monthKey(clock')})
    /\ resp' = IdleReq
    /\ UNCHANGED <<backend, redisUp, subs, trial, memVars, req, histVars, authVars, hookVars, aggVars, keyVars, limVars>>

HalfMinute == Minute \div 2

\* half a minute passes
HalfTick ==
    /\ clock + HalfMinute <= MaxClock
    /\ clock' = clock + HalfMinute
    /\ rl' = Drop(rl, {x \in DOMAIN rl : rl[x].exp <= clock'})
    /\ qt' = Drop(qt, {x \in DOMAIN qt : x[2] < monthKey(clock')})
    /\ qe' = Drop(qe, {x \in DOMAIN qe : x[2] < monthKey(clock')})
    /\ resp' = IdleReq
    /\ UNCHANGED <<backend, redisUp, subs, trial, memVars, req, histVars, authVars, hookVars, aggVars, keyVars, limVars>>

\* the billing webhooks rewrite the status of an account's subscription
SubscriptionWrite(a, st) ==
    /\ subs[a].status # st
    /\ subs' = [subs EXCEPT ![a].status = st]
    /\ resp' = IdleReq
    /\ UNCHANGED <<clock, backend, redisUp, redisVars, memVars, req, histVars, authVars, hookVars, aggVars, keyVars, limVars>>

(***************************************************************************)
(* API-key authentication: middleware.APIKeyAuth, auth.VerifyAPIKey,         *)
(* Repository.LookupAPIKey, ParseAPIKey, Repository.RevokeAPIKey.            *)
(***************************************************************************)
\* A string is the sequence of its characters.
\* strings.Split(raw, "_"): the pieces of raw between its "_" characters, in order;
\* one piece more than raw has "_" characters
RECURSIVE Split(_)
Split(raw) ==
    IF \A i \in 1..Len(raw) : raw[i] # "_" THEN <<raw>>
    ELSE LET i == CHOOSE j \in 1..Len(raw) :
                     raw[j] = "_" /\ \A h \in 1..(j - 1) : raw[h] # "_"
         IN  <<SubSeq(raw, 1, i - 1)>> \o Split(SubSeq(raw, i + 1, Len(raw)))

EmptyKey == <<>>

Live == <<"l", "i", "v", "e">>

\* api_keys.key_prefix of the row the model calls k
KeyPrefix == [k \in KeyIDs |-> IF k = "k1" THEN <<"k", "1">> ELSE <<"k", "2">>]

KeySecret == [k \in KeyIDs |-> IF k = "k1" THEN <<"s", "1">> ELSE <<"s", "2">>]

\* the row whose key_prefix is id, "" when there is none
RowOfPrefix(id) ==
    IF \E k \in KeyIDs : KeyPrefix[k] = id THEN CHOOSE k \in KeyIDs : KeyPrefix[k] = id
    ELSE ""

\* fmt.Sprintf("sc_%s_%s_%s", env, id, secret)
RawKey(env, id, secret) ==
    <<"s", "c", "_">> \o env \o <<"_">> \o id \o <<"_">> \o secret

\* bcrypt.GenerateFromPassword and bcrypt.CompareHashAndPassword
Hash(secret) == <<"bcrypt", secret>>
CompareHashAndPassword(hash, secret) == hash = Hash(secret)

\* ParseAPIKey
ParseAPIKey(raw) ==
    LET parts == Split(raw)
    IN  IF Len(parts) # 4 \/ parts[1] # <<"s", "c">>
        THEN [ok |-> FALSE, env |-> <<>>, id |-> <<>>, secret |-> <<>>]
        ELSE [ok |-> TRUE, env |-> parts[2], id |-> parts[3], secret |-> parts[4]]

\* Repository.LookupAPIKey: the failure it returns ("" when it returns a record)
\* and the record
LookupAPIKey(rawKey) ==
    LET k == ParseAPIKey(rawKey)
        row == RowOfPrefix(k.id)
        NoRec == [AccountID |-> "", APIKeyID |-> "", PlanCode |-> "", OverageEnabled |-> FALSE]
    IN  IF ~k.ok THEN [err |-> "format", rec |-> NoRec]
        ELSE IF ~dbUp THEN [err |-> "store", rec |-> NoRec]
        ELSE IF ~(row \in DOMAIN api_keys /\ api_keys[row].status = "active")
             THEN [err |-> "norows", rec |-> NoRec]
        ELSE IF ~CompareHashAndPassword(api_keys[row].key_hash, k.secret)
             THEN [err |-> "secret", rec |-> NoRec]
        ELSE [err |-> "", rec |-> KeyJoinRow(row)]

ErrUnauthorized == [err |-> "unauthorized", p |-> NoPrincipal]

\* the principal VerifyAPIKey falls back to
DevPrincipal ==
    [AccountID |-> "acc_dev", APIKeyID |-> "key_dev", PlanCode |-> "lite",
     OverageEnabled |-> FALSE]

\* auth.VerifyAPIKey
VerifyAPIKey(key, clientType) ==
    IF key = EmptyKey THEN ErrUnauthorized
    ELSE IF clientType \notin {"agent", "human", ""} THEN ErrUnauthorized
    ELSE IF ctxDB /\ LookupAPIKey(key).err = ""
         THEN [err |-> "", p |-> LookupAPIKey(key).rec]
    ELSE [err |-> "", p |-> DevPrincipal]

\* the header of a request: absent, or a key with or without the "Bearer " prefix
NoHeader == [bearer |-> FALSE, key |-> EmptyKey]

IdleAuth ==
    [done |-> FALSE, key |-> EmptyKey, status |-> 0, next |-> FALSE,
     principal |-> NoPrincipal, required |-> FALSE, revoked |-> FALSE,
     failure |-> "", looked |-> FALSE]

\* the key presented names a row of api_keys whose status is revoked
PresentsRevoked(key) ==
    LET k == ParseAPIKey(key)
        row == RowOfPrefix(k.id)
    IN  k.ok /\ row \in DOMAIN api_keys /\ api_keys[row].status = "revoked"

\* http.Error(w, ..., http.StatusUnauthorized) and the return that follows it
RejectMutant(seen) == [seen EXCEPT !.status = 401, !.next = TRUE]
Reject(seen) == [seen EXCEPT !.status = 401]

\* middleware.APIKeyAuth: status is the one the middleware writes (0 when it hands
\* the request to the next handler)
APIKeyAuth(h, ct) ==
    LET key == h.key
        v == VerifyAPIKey(key, ct)
        seen == [IdleAuth EXCEPT !.done = TRUE, !.key = key,
                                 !.required = cfg.RequireAPIKeys]
        Unauthorized == Reject(seen)
    IN  IF ~cfg.RequireAPIKeys THEN [seen EXCEPT !.next = TRUE]
        ELSE IF h = NoHeader THEN Unauthorized
        ELSE IF key = EmptyKey THEN Unauthorized
        ELSE IF cfg.EnableAgentHeader /\ ct \notin {"agent", "human"} THEN Unauthorized
        ELSE IF v.err # "" THEN [Unauthorized EXCEPT !.revoked = PresentsRevoked(key)]
        ELSE [seen EXCEPT !.next = TRUE, !.principal = v.p,
                          !.revoked = PresentsRevoked(key),
                          !.looked = ctxDB /\ dbUp,
                          !.failure = IF ctxDB THEN LookupAPIKey(key).err ELSE "nodb"]

PresentedKeys ==
    {EmptyKey, <<"x">>, RawKey(Live, <<"k", "9">>, KeySecret["k1"]),
     RawKey(Live, KeyPrefix["k1"], <<"b", "a", "d">>)}
        \cup {RawKey(Live, KeyPrefix[k], KeySecret[k]) : k \in KeyIDs}

ClientTypes == {"", "agent", "bot"}

Headers == {NoHeader} \cup [bearer : BOOLEAN, key : PresentedKeys]

\* one request through APIKeyAuth
AuthRequest(h, ct) ==
    /\ ares' = APIKeyAuth(h, ct)
    /\ UNCHANGED <<api_keys, cfg, ctxDB, dbUp, gateVars, hookVars, aggVars, keyVars, limVars>>

\* a request through the chain main builds: APIKeyAuth, then the enforcer it hands
\* the request to. Without a principal the enforcer calls the handler at once; with
\* one, the request starts on the enforcer's checks
Enter(r, h, ct, method, path) ==
    LET a == APIKeyAuth(h, ct)
        p == a.principal
        lim == IF backend = "redis" THEN PlanLimits(p.PlanCode) ELSE MemPlanLimits(p.PlanCode)
    IN  /\ req[r].pc = "idle"
        /\ IF r = 1 THEN TRUE ELSE req[r - 1].pc # "idle"
        /\ ares' = a
        /\ IF ~a.next
           THEN Step(r, [IdleReq EXCEPT !.pc = "done", !.status = a.status,
                                        !.method = method, !.path = path, !.now = clock])
           ELSE IF p = NoPrincipal
           THEN Step(r, [IdleReq EXCEPT !.pc = "done",
                                        !.status = IF a.status # 0 THEN a.status ELSE 200,
                                        !.handlerStatus = 200,
                                        !.method = method, !.path = path, !.now = clock])
           ELSE Step(r, [req[r] EXCEPT !.pc = IF backend = "redis" THEN "rate" ELSE "mcheck",
                          !.p = p, !.method = method, !.path = path, !.now = clock,
                          !.status = a.status, !.rpm = lim.rpm, !.monthly = lim.monthly])
        /\ UNCHANGED <<api_keys, cfg, ctxDB, dbUp, envVars, redisVars, memVars, histVars,
                       hookVars, aggVars, keyVars, limVars>>

\* Repository.RevokeAPIKey
RevokeAPIKey(keyID) ==
    /\ dbUp
    /\ keyID \in DOMAIN api_keys
    /\ api_keys[keyID].status = "active"
    /\ api_keys' = [api_keys EXCEPT ![keyID].status = "revoked"]
    /\ ares' = IdleAuth
    /\ UNCHANGED <<cfg, ctxDB, dbUp, gateVars, hookVars, aggVars, keyVars, limVars>>

\* the database starts or stops answering
DbFlip ==
    /\ dbUp' = ~dbUp
    /\ ares' = IdleAuth
    /\ UNCHANGED <<api_keys, cfg, ctxDB, gateVars, hookVars, aggVars, keyVars, limVars>>

\* the counter store starts or stops answering
RedisFlip ==
    /\ backend = "redis"
    /\ redisUp' = ~redisUp
    /\ resp' = IdleReq
    /\ UNCHANGED <<clock, backend, subs, redisVars, memVars, req, histVars, authVars, hookVars,
                   aggVars, keyVars, limVars>>

(***************************************************************************)
(* Billing webhook: Handler.stripeWebhook.                                   *)
(***************************************************************************)
\* h.db.Config().Billing.PriceOverageMetered as the deployment configures it
PriceOverageMetered == "price_over"

NoLines == <<>>

NoEvent ==
    [type |-> "", account |-> "", customer |-> "", subscription |-> "", plan |-> "",
     over |-> FALSE, status |-> "", invoice |-> "", lines |-> NoLines]

\* the events the provider delivers; a redelivery carries the same id and payload
Events ==
    [evt_co |-> [NoEvent EXCEPT !.type = "checkout.session.completed", !.account = "a1",
                                !.customer = "cus_1", !.subscription = "sub_1"],
     evt_co0 |-> [NoEvent EXCEPT !.type = "checkout.session.completed", !.account = "a1",
                                 !.plan = "lite"],
     evt_up |-> [NoEvent EXCEPT !.type = "customer.subscription.updated", !.account = "a1",
                                !.subscription = "sub_1", !.plan = "pro", !.over = TRUE,
                                !.status = "active"],
     evt_unpaid |-> [NoEvent EXCEPT !.type = "customer.subscription.updated", !.account = "a1",
                                    !.subscription = "sub_1", !.plan = "lite",
                                    !.status = "unpaid"],
     evt_del |-> [NoEvent EXCEPT !.type = "customer.subscription.deleted", !.account = "a1",
                                 !.subscription = "sub_1"],
     evt_inv |-> [NoEvent EXCEPT !.type = "invoice.finalized", !.subscription = "sub_1",
                                 !.invoice = "in_1",
                                 !.lines = <<[price |-> "price_base", item |-> "si_base"],
                                             [price |-> "price_over", item |-> "si_X"],
                                             [price |-> "price_over", item |-> "si_Y"]>>],
     evt_inv0 |-> [NoEvent EXCEPT !.type = "invoice.finalized", !.subscription = "sub_1",
                                  !.invoice = "in_2",
                                  !.lines = <<[price |-> "price_base", item |-> "si_base"]>>]]

EventIDs == DOMAIN Events

\* Repository.ListAPIKeyIDsByAccount
ListAPIKeyIDsByAccount(a) ==
    IF ~dbUp THEN {}
    ELSE {k \in DOMAIN api_keys : KeyAccount[k] = a /\ api_keys[k].status = "active"}

\* Manager.SumQuotas: (0, err) as soon as one read fails
RECURSIVE SumOver(_, _)
SumOver(ids, now) ==
    IF ids = {} THEN 0
    ELSE LET id == CHOOSE x \in ids : TRUE
         IN  Get(qt, <<id, monthKey(now)>>) + SumOver(ids \ {id}, now)

SumQuotas(ids, now) == IF redisUp \/ ids = {} THEN SumOver(ids, now) ELSE 0

\* overUnits := total - monthly
OverUnitsMutant(total, monthly) == total - monthly + 1
OverUnits(total, monthly) == total - monthly

\* the loop over inv.Lines.Data: the item of the first line with the metered price
RECURSIVE MeteredItem(_)
MeteredItem(lines) ==
    IF lines = <<>> THEN ""
    ELSE IF Head(lines).price = PriceOverageMetered THEN Head(lines).item
    ELSE MeteredItem(Tail(lines))

\* SELECT account_id, plan_code, overage_enabled FROM subscriptions WHERE
\* stripe_subscription_id=$1; a failed scan leaves the zero values
SubscriptionRow(subID) ==
    LET hit == {a \in Accounts : subs[a].status # "none" /\ stripeIDs[a].subscription = subID}
    IN  IF dbUp /\ hit # {}
        THEN LET a == CHOOSE x \in hit : TRUE
             IN  [acctID |-> a, planCode |-> subs[a].plan, over |-> subs[a].overage]
        ELSE [acctID |-> "", planCode |-> "", over |-> FALSE]

\* if over { ... }: the scanned overage_enabled column guards the report
OverageGuardMutant(row) == TRUE
OverageGuard(row) == row.over

\* the invoice.finalized case: the calls of meteredUsageCreate it makes
InvoiceFinalized(ev) ==
    LET row == SubscriptionRow(ev.subscription)
        ids == ListAPIKeyIDsByAccount(row.acctID)
        total == SumQuotas(ids, clock)
        overUnits == OverUnits(total, PlanLimits(row.planCode).monthly)
        meteredItemID == MeteredItem(ev.lines)
    IN  IF ev.subscription # "" /\ OverageGuard(row) /\ backend = "redis" /\ overUnits > 0
           /\ meteredItemID # ""
        THEN <<[item |-> meteredItemID, quantity |-> overUnits, invoice |-> ev.invoice]>>
        ELSE <<>>

\* the rows an UPDATE ... WHERE reaches; an account without a row has status "none"
RowsWhere(match(_)) == {a \in Accounts : subs[a].status # "none" /\ match(a)}

\* UPDATE subscriptions SET status='canceled' on a row it reaches
DeletedRow(row) == [row EXCEPT !.status = "canceled"]

\* the subscriptions table after the statement of the event's case
SubsAfter(ev) ==
    IF ~dbUp THEN subs
    ELSE CASE ev.type = "checkout.session.completed" /\ ev.subscription # "" ->
                LET rows == RowsWhere(LAMBDA a : a = ev.account)
                IN  [a \in Accounts |->
                        IF a \in rows THEN [subs[a] EXCEPT !.status = "active"] ELSE subs[a]]
           [] ev.type \in {"customer.subscription.created", "customer.subscription.updated"} ->
                LET rows == RowsWhere(LAMBDA a : stripeIDs[a].subscription = ev.subscription
                                                  \/ a = ev.account)
                IN  [a \in Accounts |->
                        IF a \in rows
                        THEN [status |-> ev.status, plan |-> ev.plan, overage |-> ev.over]
                        ELSE subs[a]]
           [] ev.type = "customer.subscription.deleted" ->
                LET rows == RowsWhere(LAMBDA a : stripeIDs[a].subscription = ev.subscription)
                IN  [a \in Accounts |->
                        IF a \in rows THEN DeletedRow(subs[a]) ELSE subs[a]]
           \* checkout without subscription: INSERT ... ON CONFLICT (account_id) names a
           \* column without unique index, the statement fails and its error is dropped
           [] OTHER -> subs

StripeIDsAfter(ev) ==
    IF dbUp /\ ev.type = "checkout.session.completed" /\ ev.subscription # ""
    THEN LET rows == RowsWhere(LAMBDA a : a = ev.account)
         IN  [a \in Accounts |->
                IF a \in rows
                THEN [customer |-> ev.customer, subscription |-> ev.subscription]
                ELSE stripeIDs[a]]
    ELSE stripeIDs

IdleHook ==
    [done |-> FALSE, event |-> "", type |-> "", status |-> 0, redelivery |-> FALSE,
     calls |-> <<>>, storesUp |-> FALSE, sig |-> FALSE]

Deliveries == LET RECURSIVE Sum(_)
                  Sum(S) == IF S = {} THEN 0
                            ELSE LET e == CHOOSE x \in S : TRUE
                                 IN  delivered[e] + Sum(S \ {e})
              IN  Sum(EventIDs)

\* webhook.ConstructEvent: err == nil exactly when the signature verifies
ConstructEventMutant(sigOK) == TRUE
ConstructEvent(sigOK) == sigOK

\* Handler.stripeWebhook on a delivery of event e whose signature verifies or not
stripeWebhook(e, sigOK) ==
    LET ev == Events[e]
        calls == IF ev.type = "invoice.finalized" THEN InvoiceFinalized(ev) ELSE <<>>
    IN  /\ Deliveries < MaxDeliveries
        /\ IF ~ConstructEvent(sigOK)
           THEN /\ hres' = [IdleHook EXCEPT !.done = TRUE, !.event = e, !.status = 400]
                /\ UNCHANGED <<subs, stripeIDs, meterCalls, delivered>>
           ELSE /\ subs' = SubsAfter(ev)
                /\ stripeIDs' = StripeIDsAfter(ev)
                /\ meterCalls' = meterCalls \o calls
                /\ delivered' = [delivered EXCEPT ![e] = @ + 1]
                /\ hres' = [done |-> TRUE, event |-> e, type |-> ev.type, status |-> 200,
                            redelivery |-> delivered[e] > 0, calls |-> calls,
                            storesUp |-> dbUp /\ redisUp, sig |-> sigOK]
        /\ UNCHANGED <<processed_events, authVars, clock, backend, redisUp, redisVars,
                       memVars, req, resp, histVars, aggVars, keyVars, limVars>>

HookAtRest ==
    /\ stripeIDs = [a \in Accounts |-> [customer |-> "", subscription |-> ""]]
    /\ processed_events = [e \in EventIDs |-> 0]
    /\ meterCalls = <<>>
    /\ delivered = [e \in EventIDs |-> 0]
    /\ hres = IdleHook


(***************************************************************************)
(* Key generation: auth.GenerateAPIKey, auth.randomToken, auth.ParseAPIKey.  *)
(***************************************************************************)
\* encoding/base64 URLEncoding: the character of each 6-bit value 0..63
encodeURL ==
    <<"A", "B", "C", "D", "E", "F", "G", "H", "I", "J", "K", "L", "M", "N", "O", "P",
      "Q", "R", "S", "T", "U", "V", "W", "X", "Y", "Z", "a", "b", "c", "d", "e", "f",
      "g", "h", "i", "j", "k", "l", "m", "n", "o", "p", "q", "r", "s", "t", "u", "v",
      "w", "x", "y", "z", "0", "1", "2", "3", "4", "5", "6", "7", "8", "9", "-", "_">>

\* base64.RawURLEncoding.EncodeToString on the 6-bit groups of the bytes read
EncodeToString(groups) == [i \in 1 .. Len(groups) |-> encodeURL[groups[i] + 1]]

\* the number of 6-bit groups in n bytes: (8n + 5) / 6
EncodedLen(n) == (8 * n + 5) \div 6

\* the 6-bit groups rand.Read can deliver, a sample of 0..63 that keeps one
\* letter of each case, a digit and both punctuation characters
Groups == {0, 26, 52, 62, 63}

\* the bytes of one rand.Read, as 6-bit groups: the first n are free, the model
\* leaves the ones that are trimmed away at zero
Reads(n) == {g \o [i \in 1 .. (EncodedLen(n) - n) |-> 0] : g \in [1 .. n -> Groups]}

\* randomToken(n): "" when rand.Read fails, else the first n characters of the
\* encoding
randomToken(read, ok, n) ==
    IF ~ok THEN <<>>
    ELSE LET str == EncodeToString(read)
         IN  IF Len(str) > n THEN SubSeq(str, 1, n) ELSE str

Envs == {Live, <<"t", "e", "s", "t">>}

IdleKey ==
    [pc |-> "idle", env |-> <<>>, id |-> <<>>, secret |-> <<>>, rawKey |-> <<>>,
     secretHash |-> <<>>,
     parsed |-> [ok |-> FALSE, env |-> <<>>, id |-> <<>>, secret |-> <<>>]]

\* auth.GenerateAPIKey(env); ri, rs are what the two calls of rand.Read deliver
GenerateAPIKey(env, ri, oki, rs, oks) ==
    /\ keygen.pc = "idle"
    /\ LET id == randomToken(ri, oki, IdLen)
           secret == randomToken(rs, oks, SecretLen)
       IN  keygen' = IF id = <<>> \/ secret = <<>>
                     THEN [IdleKey EXCEPT !.pc = "failed", !.env = env]
                     ELSE [IdleKey EXCEPT !.pc = "generated", !.env = env, !.id = id,
                                          !.secret = secret,
                                          !.rawKey = RawKey(env, id, secret),
                                          !.secretHash = Hash(secret)]
    /\ UNCHANGED <<gateVars, authVars, hookVars, aggVars, limVars>>

\* the caller hands the raw key back: auth.ParseAPIKey(rawKey)
ParseGenerated ==
    /\ keygen.pc = "generated"
    /\ keygen' = [keygen EXCEPT !.pc = "parsed", !.parsed = ParseAPIKey(keygen.rawKey)]
    /\ UNCHANGED <<gateVars, authVars, hookVars, aggVars, limVars>>

KeyAtRest == keygen = IdleKey

(***************************************************************************)
(* middleware.RateLimit: the per-IP limiter over an unguarded map.          *)
(***************************************************************************)
LimReqs == 1 .. (MaxReq + 1)

\* r.RemoteAddr of the requests, as host and port
RemoteAddrs == {<<"192.168.1.1", "12345">>, <<"192.168.1.1", "12346">>, <<"10.0.0.1", "">>}

\* net.SplitHostPort: an address without a port is an error
SplitHostPort(addr) ==
    IF addr[2] = "" THEN [host |-> "", err |-> TRUE] ELSE [host |-> addr[1], err |-> FALSE]

clientIP(addr) == IF SplitHostPort(addr).err THEN addr[1] ELSE SplitHostPort(addr).host

IdleLim ==
    [pc |-> "idle", clientIP |-> "", now |-> 0, timestamps |-> <<>>, status |-> 0, retryAfter |-> ""]

\* clients[clientIP]: a missing key reads as the nil slice
Stamps(m, ip) == IF ip \in DOMAIN m THEN m[ip] ELSE <<>>

InFlight(r) == limReq[r].pc \notin {"idle", "done"}

\* the handler starts: clientIP and now := time.Now()
LimBegin(r, addr) ==
    /\ ~limFatal
    /\ limReq[r].pc = "idle"
    /\ limReq' = [limReq EXCEPT ![r] = [IdleLim EXCEPT !.pc = "clean", !.clientIP = clientIP(addr),
                                                 !.now = clock]]
    /\ limOverlap' = (limOverlap \/ \E q \in LimReqs \ {r} : InFlight(q))
    /\ UNCHANGED <<clients, limFatal, gateVars, authVars, hookVars, aggVars, keyVars>>

\* timestamps, exists := clients[clientIP]
LimCleanRead(r) ==
    /\ ~limFatal
    /\ limReq[r].pc = "clean"
    /\ limReq' = [limReq EXCEPT ![r].pc = IF limReq[r].clientIP \in DOMAIN clients THEN "store" ELSE "check",
                          ![r].timestamps = Stamps(clients, limReq[r].clientIP)]
    /\ UNCHANGED <<clients, limOverlap, limFatal, gateVars, authVars, hookVars, aggVars, keyVars>>

validTimestamps(timestamps, now) ==
    SelectSeq(timestamps, LAMBDA ts : now - ts < Minute)

\* clients[clientIP] = validTimestamps
LimCleanWrite(r) ==
    /\ ~limFatal
    /\ limReq[r].pc = "store"
    /\ clients' = [ip \in DOMAIN clients \cup {limReq[r].clientIP} |->
                       IF ip = limReq[r].clientIP
                       THEN validTimestamps(limReq[r].timestamps, limReq[r].now)
                       ELSE clients[ip]]
    /\ limReq' = [limReq EXCEPT ![r].pc = "check"]
    /\ UNCHANGED <<limOverlap, limFatal, gateVars, authVars, hookVars, aggVars, keyVars>>

\* if len(clients[clientIP]) >= requestsPerMinute: 429 with Retry-After "60"
LimCheck(r) ==
    /\ ~limFatal
    /\ limReq[r].pc = "check"
    /\ limReq' = IF Len(Stamps(clients, limReq[r].clientIP)) >= requestsPerMinute
              THEN [limReq EXCEPT ![r].pc = "done", ![r].status = 429, ![r].retryAfter = "60"]
              ELSE [limReq EXCEPT ![r].pc = "append"]
    /\ UNCHANGED <<clients, limOverlap, limFatal, gateVars, authVars, hookVars, aggVars, keyVars>>

\* clients[clientIP] = append(clients[clientIP], now); next.ServeHTTP(w, r)
LimAppend(r) ==
    /\ ~limFatal
    /\ limReq[r].pc = "append"
    /\ clients' = [ip \in DOMAIN clients \cup {limReq[r].clientIP} |->
                       IF ip = limReq[r].clientIP
                       THEN Append(Stamps(clients, ip), limReq[r].now)
                       ELSE clients[ip]]
    /\ limReq' = [limReq EXCEPT ![r].pc = "done", ![r].status = 200]
    /\ UNCHANGED <<limOverlap, limFatal, gateVars, authVars, hookVars, aggVars, keyVars>>

\* two handlers touch the map at once and one of them writes: the runtime may
\* stop the process ("concurrent map writes", "concurrent map read and map write")
LimMapFault ==
    /\ ~limFatal
    /\ \E r, q \in LimReqs :
          r # q /\ limReq[r].pc \in {"store", "append"} /\ InFlight(q)
    /\ limFatal' = TRUE
    /\ UNCHANGED <<clients, limReq, limOverlap, gateVars, authVars, hookVars, aggVars, keyVars>>

LimAtRest ==
    /\ clients = <<>>
    /\ limReq = [r \in LimReqs |-> IdleLim]
    /\ limOverlap = FALSE
    /\ limFatal = FALSE

(***************************************************************************)
(* Usage aggregation: usage.StartAggregator, usage.FlushOnce,               *)
(* Repository.ListAllActiveAPIKeys, Manager.ListEndpointUsage.              *)
(***************************************************************************)
\* json.Marshal of the nil map a failed listing leaves behind
NullEndpoints == [null |-> TRUE, counts |-> <<>>]

\* m.ListEndpointUsage: the counters matching quota:{key}:{YYYYMM}:ep:*, each under
\* the part of its name after ":ep:", the method and the path
ListEndpointUsage(k, now) ==
    LET eps == {<<x[3], x[4]>> : x \in {y \in DOMAIN qe : y[1] = k /\ y[2] = monthKey(now)}}
    IN  [null |-> FALSE,
         counts |-> [e \in eps |-> qe[<<k, monthKey(now), e[1], e[2]>>]]]

\* SELECT account_id, key_prefix FROM api_keys WHERE status='active'
ListAllActiveAPIKeys == {k \in DOMAIN api_keys : api_keys[k].status = "active"}

\* the columns of the UNIQUE constraint for a key and the month of now
RowKey(k, now) == <<KeyAccount[k], k, PeriodStart(now)>>

\* DO UPDATE SET column=EXCLUDED.column: the value of the row proposed for insertion
\* replaces the one the row holds
DoUpdateSetMutant(held, excluded) == held
DoUpdateSet(held, excluded) == excluded

\* INSERT ... ON CONFLICT(account_id, api_key_id, period_start, period_end) DO UPDATE
\* SET total_requests=EXCLUDED.total_requests, per_endpoint=EXCLUDED.per_endpoint
UpsertMutant(tbl, key, pe, total, ep) ==
    [x \in DOMAIN tbl \cup {key} |->
        IF x # key THEN tbl[x]
        ELSE [n |-> 1, period_end |-> pe,
              total_requests |-> total + (IF key \in DOMAIN tbl THEN tbl[key].total_requests ELSE 0),
              per_endpoint |-> ep]]
Upsert(tbl, key, pe, total, ep) ==
    [x \in DOMAIN tbl \cup {key} |->
        IF x # key THEN tbl[x]
        ELSE IF key \in DOMAIN tbl
             THEN [tbl[key] EXCEPT
                    !.total_requests = DoUpdateSet(@, total),
                    !.per_endpoint = DoUpdateSet(@, ep)]
             ELSE [n |-> 1, period_end |-> pe, total_requests |-> total, per_endpoint |-> ep]]

\* the goroutine waiting in its select
IdleAgg ==
    [pc |-> "wait", pairs |-> {}, now |-> 0, key |-> "", total |-> 0,
     ep |-> NullEndpoints, listed |-> FALSE, cancelled |-> FALSE, quiet |-> TRUE,
     env |-> <<>>, wrote |-> {}]

\* what a flush reads: the counters, the keys and the month
Env == <<qt, qe, api_keys, monthKey(clock)>>

\* history: every call of the flush so far succeeded and found what it reads unchanged
Calm(a) == a.quiet /\ redisUp /\ dbUp /\ ~ctxDone /\ Env = a.env

\* the loop over pairs goes on; after the last pair FlushOnce returns to the select
NextPair(a, tbl) ==
    IF a.pairs = {}
    THEN /\ agg' = IdleAgg
         /\ flushLog' = Append(flushLog,
                [now |-> a.now, listed |-> a.listed, cancelled |-> a.cancelled,
                 quiet |-> a.quiet, env |-> a.env, wrote |-> a.wrote, tbl |-> tbl])
    ELSE /\ agg' = [a EXCEPT !.pc = "loop"]
         /\ UNCHANGED flushLog

\* case <-ticker.C: FlushOnce lists the active keys and reads the clock; a failed
\* listing ends the flush
FlushList ==
    /\ agg.pc = "wait"
    /\ Len(flushLog) < MaxFlushes
    /\ LET ok == dbUp /\ ~ctxDone
       IN  NextPair([IdleAgg EXCEPT !.pairs = IF ok THEN ListAllActiveAPIKeys ELSE {},
                                    !.now = clock, !.listed = ok, !.cancelled = ctxDone,
                                    !.quiet = ok /\ redisUp, !.env = Env],
                    usage_aggregates)
    /\ UNCHANGED <<usage_aggregates, ctxDone, gateVars, authVars, hookVars, keyVars, limVars>>

\* rl.GetQuota for the next pair; on an error the pair is skipped
FlushGetQuota(k) ==
    /\ agg.pc = "loop"
    /\ k \in agg.pairs
    /\ IF redisUp /\ ~ctxDone
       THEN /\ agg' = [agg EXCEPT !.pc = "ep", !.key = k, !.total = GetQuota(k, agg.now),
                                  !.quiet = Calm(agg)]
            /\ UNCHANGED flushLog
       ELSE NextPair([agg EXCEPT !.pairs = @ \ {k}, !.quiet = FALSE], usage_aggregates)
    /\ UNCHANGED <<usage_aggregates, ctxDone, gateVars, authVars, hookVars, keyVars, limVars>>

\* rl.ListEndpointUsage, its error dropped
FlushListEndpointUsage ==
    /\ agg.pc = "ep"
    /\ agg' = [agg EXCEPT !.pc = "exec",
                          !.ep = IF redisUp /\ ~ctxDone
                                 THEN ListEndpointUsage(agg.key, agg.now) ELSE NullEndpoints,
                          !.quiet = Calm(agg)]
    /\ UNCHANGED <<usage_aggregates, flushLog, ctxDone, gateVars, authVars, hookVars, keyVars, limVars>>

\* db.Exec of the upsert, its error dropped
FlushExec ==
    LET ok == dbUp /\ ~ctxDone
        key == RowKey(agg.key, agg.now)
    IN  /\ agg.pc = "exec"
        /\ usage_aggregates' =
              IF ok THEN Upsert(usage_aggregates, key, PeriodEnd(agg.now), agg.total, agg.ep)
              ELSE usage_aggregates
        /\ NextPair([agg EXCEPT !.pairs = @ \ {agg.key}, !.key = "", !.total = 0,
                                !.ep = NullEndpoints, !.quiet = Calm(agg),
                                !.wrote = IF ok THEN @ \cup {key} ELSE @],
                    usage_aggregates')
        /\ UNCHANGED <<ctxDone, gateVars, authVars, hookVars, keyVars, limVars>>

\* case <-ctx.Done(): return
AggregatorExit ==
    /\ agg.pc = "wait"
    /\ ctxDone
    /\ agg' = [agg EXCEPT !.pc = "stopped"]
    /\ UNCHANGED <<usage_aggregates, flushLog, ctxDone, gateVars, authVars, hookVars, keyVars, limVars>>

\* main returns after srv.Shutdown: the deferred cancel() runs
Cancel ==
    /\ ~ctxDone
    /\ ctxDone' = TRUE
    /\ UNCHANGED <<usage_aggregates, agg, flushLog, gateVars, authVars, hookVars, keyVars, limVars>>

AggAtRest ==
    /\ usage_aggregates = <<>>
    /\ agg = IdleAgg
    /\ ctxDone = FALSE
    /\ flushLog = <<>>

AllKeysActive == [k \in KeyIDs |-> [status |-> "active", key_hash |-> Hash(KeySecret[k])]]

AuthAtRest ==
    /\ api_keys = AllKeysActive
    /\ cfg = [RequireAPIKeys |-> FALSE, EnableAgentHeader |-> FALSE]
    /\ ctxDB = FALSE
    /\ dbUp = TRUE
    /\ ares = IdleAuth

GateAtRest ==
    /\ clock = 0
    /\ backend = "redis"
    /\ redisUp = TRUE
    /\ req = [r \in Reqs |-> IdleReq]
    /\ resp = IdleReq
    /\ rl = <<>> /\ qt = <<>> /\ qe = <<>> /\ trial = <<>>
    /\ buckets = <<>> /\ usageByAK = <<>> /\ usageByAC = <<>>
    /\ bheap = <<>> /\ uheap = <<>>
    /\ rlPassed = <<>> /\ admitted = <<>>
    /\ trialAdmitted = [a \in Accounts |-> 0]

InitAuth ==
    /\ GateAtRest
    /\ AggAtRest
    /\ KeyAtRest /\ LimAtRest
    /\ subs \in [Accounts -> [status : {"none", "active"}, plan : {"pro"}, overage : BOOLEAN]]
    /\ api_keys = AllKeysActive
    /\ cfg \in [RequireAPIKeys : BOOLEAN, EnableAgentHeader : BOOLEAN]
    /\ ctxDB \in BOOLEAN
    /\ dbUp = TRUE
    /\ ares = IdleAuth
    /\ HookAtRest

NextAuth ==
    \/ \E h \in Headers, ct \in ClientTypes : AuthRequest(h, ct)
    \/ \E k \in KeyIDs : RevokeAPIKey(k)
    \/ DbFlip

SpecAuth == InitAuth /\ [][NextAuth]_vars

\* C5: a request presenting a revoked key is answered 401 by APIKeyAuth and is
\* not handed on, with or without a principal (stated for the deployments that
\* require API keys and for the requests whose key the database was asked about).
RevokedKeyUnauthenticated ==
    (ares.done /\ ares.required /\ ares.revoked /\ ares.looked) =>
        (ares.status = 401 /\ ~ares.next /\ ares.principal = NoPrincipal)

\* C6: when API keys are required, a request whose key could not be resolved
\* (malformed, unknown prefix, wrong secret, failed lookup) is answered 401 and
\* gets no principal.
ResolutionFailureUnauthenticated ==
    (ares.done /\ ares.required /\ ares.failure # "") =>
        (ares.status = 401 /\ ares.principal = NoPrincipal)

(***************************************************************************)
(* Initial states of the admission gate. The counters start either empty or *)
(* as a sequential run of the enforcer leaves them: h requests of key k1    *)
(* completed earlier in the month and n in the current minute, all under    *)
(* the initial subscription row.                                            *)
(***************************************************************************)
HistKey == "k1"
HistMethod == "GET"
HistPath == "/v1/alerts"

\* the <<h, n>> a run can have completed or admitted. With the shared store the
\* trial cap stops an account without subscription at 10 requests. In process the
\* counters start empty with the process, the cap stops every account once 10
\* requests have returned, and a bucket holds more reservations than that only
\* while the requests beyond the ninth are still in their handlers.
Histories(be, p0, active0) ==
    LET lim == PlanLimits(p0.PlanCode)
        all == {<<0, 0>>, <<0, RedisTrialCap - 1>>, <<0, lim.rpm - 1>>,
                <<lim.monthly - 1, 0>>}
    IN  {x \in all :
            /\ ~active0 => x[1] + x[2] <= RedisTrialCap
            /\ be = "mem" => x[1] = 0
            /\ ~p0.OverageEnabled => x[1] + x[2] <= lim.monthly}

\* of n reservations of the in-process history, those whose requests have returned
Returned(n) == IF n > trialTotalAllowed - 1 THEN trialTotalAllowed - 1 ELSE n

Singleton(key, val, n) == IF n > 0 THEN [x \in {key} |-> val] ELSE <<>>

InitGate ==
    /\ AuthAtRest
    /\ HookAtRest
    /\ AggAtRest
    /\ KeyAtRest /\ LimAtRest
    /\ clock = 0
    /\ backend \in Backends
    /\ redisUp \in (IF backend = "redis" THEN BOOLEAN ELSE {TRUE})
    /\ subs \in [Accounts -> [status : SubStatuses, plan : PlanCodes, overage : BOOLEAN]]
    /\ req = [r \in Reqs |-> IdleReq]
    /\ resp = IdleReq
    /\ LET a0 == KeyAccount[HistKey]
           p0 == KeyJoinRow(HistKey)
           active0 == subscriptionActiveCheck(a0)
           pf == IF p0.OverageEnabled THEN "ov" ELSE PlanField(p0.PlanCode)
       IN  \E x \in Histories(backend, p0, active0) :
            LET h == x[1]
                n == x[2]
                red == backend = "redis"
            IN  /\ rl = Singleton(<<HistKey, HistMethod, HistPath, 0>>,
                                  [count |-> n, exp |-> Minute], IF red THEN n ELSE 0)
                /\ qt = Singleton(<<HistKey, 0>>, h + n, IF red THEN h + n ELSE 0)
                /\ qe = Singleton(<<HistKey, 0, HistMethod, HistPath>>, h + n,
                                  IF red THEN h + n ELSE 0)
                /\ trial = Singleton(a0, h + n, IF red THEN h + n ELSE 0)
                /\ rlPassed = Singleton(<<HistKey, HistMethod, HistPath, 0>>,
                        [ZeroByPlan EXCEPT ![PlanField(p0.PlanCode)] = n], IF red THEN n ELSE 0)
                /\ admitted = Singleton(<<HistKey, 0>>, [ZeroAdmitted EXCEPT ![pf] = h + n], h + n)
                /\ trialAdmitted = [a \in Accounts |-> IF a = a0 /\ ~active0 THEN h + n ELSE 0]
                /\ IF red \/ h + n = 0
                   THEN /\ buckets = <<>> /\ usageByAK = <<>> /\ usageByAC = <<>>
                        /\ bheap = <<>> /\ uheap = <<>>
                   ELSE /\ buckets = [b \in {<<HistKey, HistMethod, HistPath>>} |-> 1]
                        /\ usageByAK = [k \in {HistKey} |-> 1]
                        /\ usageByAC = [a \in {a0} |-> 2]
                        /\ bheap = <<[windowStart |-> 0, count |-> n,
                                      passed |-> [ZeroByPlan EXCEPT ![PlanField(p0.PlanCode)] = n]]>>
                        /\ uheap = <<[NewUsage(0) EXCEPT !.total = Returned(n),
                                        !.perEndpoint = Singleton(<<HistMethod, HistPath>>, Returned(n), 1)],
                                     [NewUsage(0) EXCEPT !.trialUsed = Returned(n)]>>

HandlerStatuses == {200, 500}

\* the paths request r is sent to: the first request goes to the path of the history
PathsOf(r) == IF r = 1 THEN {HistPath} ELSE Paths

NextGate ==
    \/ \E r \in Reqs :
        \/ \E k \in APIKeys, method \in Methods, path \in PathsOf(r) : Begin(r, k, method, path)
        \/ CheckRate(r)
        \/ QuotaCheck(r)
        \/ TrialCheck(r)
        \/ \E st \in HandlerStatuses : IncQuota(r, st)
        \/ IncTrialUsage(r)
        \/ RedisHeaders(r)
        \/ MemCheck(r)
        \/ \E st \in HandlerStatuses : MemPost(r, st)
    \/ Tick
    \/ \E a \in Accounts, st \in SubStatuses : SubscriptionWrite(a, st)

SpecGate == InitGate /\ [][NextGate]_vars

(***************************************************************************)
(* Claims about the admission gate.                                         *)
(***************************************************************************)
PlanFields == {"lite", "pro"}

\* C1: in every rate window of a key and endpoint (a redis rate key, a bucket of
\* the in-process enforcer) the requests that passed the rate check under a plan
\* number at most that plan's rpm.
RateWindowBound ==
    /\ \A rk \in DOMAIN rlPassed : \A f \in PlanFields :
            rlPassed[rk][f] <= PlanLimits(f).rpm
    /\ \A i \in 1 .. Len(bheap) : \A f \in PlanFields :
            bheap[i].passed[f] <= MemPlanLimits(f).rpm

\* a window in which the rpm-th request passed and a further one was denied
RateWindowFull ==
    /\ resp.pc = "done" /\ resp.status = 429 /\ resp.reason = "rate"
    /\ \/ \E rk \in DOMAIN rlPassed :
            /\ rk[1] = resp.p.APIKeyID /\ rk[3] = resp.path
            /\ rlPassed[rk][PlanField(resp.p.PlanCode)] = resp.rpm
            /\ rl[rk].count = resp.rpm + 1
       \/ /\ backend = "mem"
          /\ bheap[resp.b].passed[PlanField(resp.p.PlanCode)] = resp.rpm

\* C2: with overage disabled, the requests admitted for a key in a month number at
\* most the plan's monthly quota (stated for the runs in which every call to the
\* counter store succeeds).
QuotaNeverExceeded ==
    \A km \in DOMAIN admitted :
        (redisUp /\ admitted[km].ov = 0) =>
            /\ admitted[km].lite <= liteMonthlyQuota
            /\ admitted[km].lite + admitted[km].pro <= proMonthlyQuota

\* C3: an account without active or trialing subscription has at most 10 requests
\* admitted (stated for the runs in which every call to the counter store succeeds).
TrialCapBound == redisUp => \A a \in Accounts : trialAdmitted[a] <= RedisTrialCap

\* C4: no request is denied by the trial cap while its account's subscription is
\* active or trialing.
NoTrialDenialWhenSubscribed ==
    ~(resp.pc = "done" /\ resp.status = 429 /\ resp.reason = "trial" /\ resp.active)

(***************************************************************************)
(* Initial states and steps of the billing webhook. The account may have a  *)
(* subscription row, linked to the provider's subscription or not, and its  *)
(* keys have monthly totals in the counter store.                           *)
(***************************************************************************)
HookStatuses == {"none", "active"}

\* monthly totals the counter store holds for the two keys
QuotaSamples ==
    {<<0, 0>>, <<liteMonthlyQuota, 0>>, <<liteMonthlyQuota, 3>>, <<proMonthlyQuota, 3>>}

InitHook ==
    /\ AggAtRest
    /\ KeyAtRest /\ LimAtRest
    /\ clock = 0
    /\ backend \in Backends
    /\ redisUp \in (IF backend = "redis" THEN BOOLEAN ELSE {TRUE})
    /\ req = [r \in Reqs |-> IdleReq]
    /\ resp = IdleReq
    /\ rl = <<>> /\ qe = <<>> /\ trial = <<>>
    /\ \E x \in QuotaSamples : qt = [km \in {<<"k1", 0>>, <<"k2", 0>>} |->
                                        IF km[1] = "k1" THEN x[1] ELSE x[2]]
    /\ buckets = <<>> /\ usageByAK = <<>> /\ usageByAC = <<>>
    /\ bheap = <<>> /\ uheap = <<>>
    /\ rlPassed = <<>> /\ admitted = <<>>
    /\ trialAdmitted = [a \in Accounts |-> 0]
    /\ subs \in [Accounts -> [status : HookStatuses, plan : PlanCodes, overage : BOOLEAN]]
    /\ stripeIDs \in [Accounts -> {[customer |-> "", subscription |-> ""],
                                   [customer |-> "cus_1", subscription |-> "sub_1"]}]
    /\ \A a \in Accounts : subs[a].status = "none" => stripeIDs[a].subscription = ""
    /\ api_keys \in {AllKeysActive, [AllKeysActive EXCEPT !["k2"].status = "revoked"]}
    /\ cfg = [RequireAPIKeys |-> FALSE, EnableAgentHeader |-> FALSE]
    /\ ctxDB = FALSE
    /\ dbUp = TRUE
    /\ ares = IdleAuth
    /\ processed_events = [e \in EventIDs |-> 0]
    /\ meterCalls = <<>>
    /\ delivered = [e \in EventIDs |-> 0]
    /\ hres = IdleHook

NextHook ==
    \/ \E e \in EventIDs, sigOK \in BOOLEAN : stripeWebhook(e, sigOK)
    \/ DbFlip

SpecHook == InitHook /\ [][NextHook]_vars

\* C7: once a delivery of an event with a valid signature has been handled,
\* processed_events holds exactly one row for the event id.
OneProcessedRow ==
    \A e \in EventIDs : delivered[e] >= 1 => processed_events[e] = 1

\* C8: a redelivery of an event is answered 200 and leaves the subscriptions
\* table as it was just before it.
RedeliveryNoMutation ==
    [][\A e \in EventIDs :
          (delivered[e] >= 1 /\ delivered'[e] = delivered[e] + 1) =>
              (hres'.status = 200 /\ subs' = subs /\ stripeIDs' = stripeIDs)]_vars

\* C9: for one invoice the meter reporter is called at most once, however often
\* its invoice.finalized event is delivered.
CallsFor(inv) == {i \in 1 .. Len(meterCalls) : meterCalls[i].invoice = inv}

OverageInvoiceHandled(a) ==
    /\ hres.done /\ hres.status = 200 /\ hres.type = "invoice.finalized"
    /\ hres.storesUp
    /\ subs[a].status # "none" /\ subs[a].overage
    /\ stripeIDs[a].subscription = Events[hres.event].subscription

\* T: the month's totals of the account's active keys; Q: the plan's monthly quota
ActiveTotal(a) ==
    (IF api_keys["k1"].status = "active" /\ KeyAccount["k1"] = a
     THEN Get(qt, <<"k1", monthKey(clock)>>) ELSE 0)
    + (IF api_keys["k2"].status = "active" /\ KeyAccount["k2"] = a
       THEN Get(qt, <<"k2", monthKey(clock)>>) ELSE 0)

PlanQuota(a) == IF subs[a].plan = "pro" THEN proMonthlyQuota ELSE liteMonthlyQuota

MeteredLines(e) ==
    {i \in 1 .. Len(Events[e].lines) : Events[e].lines[i].price = PriceOverageMetered}

FirstMeteredItem(e) ==
    Events[e].lines[CHOOSE i \in MeteredLines(e) : \A j \in MeteredLines(e) : i <= j].item

InvoiceWithoutOverage(a, e) ==
    /\ Events[e].type = "invoice.finalized"
    /\ subs[a].status # "none" /\ ~subs[a].overage
    /\ stripeIDs[a].subscription = Events[e].subscription

\* C11: an invoice.finalized event of a subscription whose overage flag is off
\* calls the meter reporter not at all and changes no subscription row and no
\* counter.
InvoiceWithoutOverageNoOp ==
    [][\A a \in Accounts, e \in EventIDs :
          (InvoiceWithoutOverage(a, e) /\ delivered'[e] = delivered[e] + 1) =>
          /\ hres'.status = 200
          /\ meterCalls' = meterCalls /\ hres'.calls = <<>>
          /\ subs' = subs /\ stripeIDs' = stripeIDs
          /\ UNCHANGED <<rl, qt, qe, trial>>]_vars

\* such an invoice was handled for an account over its quota, with the metered
\* line on the invoice and the limiter configured
InvoiceWithoutOverageSeen ==
    \E a \in Accounts :
        /\ hres.done /\ hres.sig /\ InvoiceWithoutOverage(a, hres.event)
        /\ hres.status = 200 /\ hres.storesUp /\ backend = "redis"
        /\ ActiveTotal(a) > PlanQuota(a)
        /\ MeteredLines(hres.event) # {}
        /\ meterCalls = <<>>

\* C12: a delivery whose signature does not verify is answered 400 and changes
\* no subscription row, inserts no processed_events row and calls the meter
\* reporter not at all.
InvalidSignatureNoEffect ==
    [][(hres'.done /\ ~hres'.sig /\ hres' # hres) =>
          /\ hres'.status = 400
          /\ subs' = subs /\ stripeIDs' = stripeIDs
          /\ processed_events' = processed_events
          /\ meterCalls' = meterCalls
          /\ UNCHANGED <<rl, qt, qe, trial>>]_vars

\* an invoice.finalized that would have been reported arrived with a bad signature
InvalidSignatureSeen ==
    \E a \in Accounts :
        /\ hres.done /\ ~hres.sig /\ hres.status = 400 /\ hres.event = "evt_inv"
        /\ subs[a].status # "none" /\ subs[a].overage
        /\ stripeIDs[a].subscription = "sub_1"
        /\ backend = "redis" /\ redisUp /\ dbUp
        /\ ActiveTotal(a) > PlanQuota(a)
        /\ meterCalls = <<>>

(***************************************************************************)
(* Counting of admitted and denied requests.                                *)
(***************************************************************************)
\* the redis keys IncQuota writes for a request
TotalKeyOf(rq) == <<rq.p.APIKeyID, monthKey(rq.now)>>
EpKeyOf(rq) == <<rq.p.APIKeyID, monthKey(rq.now), rq.method, rq.path>>

\* C18: the post-increment of an admitted request raises the key's monthly total
\* and the per-endpoint counter of its method and path by exactly one, whatever
\* the handler's status and whatever other requests do meanwhile (stated for the
\* runs in which every call to the counter store succeeds).
AdmittedCountedOnce ==
    [][\A r \in Reqs :
          /\ (redisUp /\ req[r].pc = "handler" /\ req'[r].pc = "inct") =>
                /\ Get(qt', TotalKeyOf(req[r])) = Get(qt, TotalKeyOf(req[r])) + 1
                /\ Get(qe', EpKeyOf(req[r])) = Get(qe, EpKeyOf(req[r])) + 1
          /\ (req[r].pc = "mhandler" /\ req'[r].pc = "gone") =>
                /\ uheap'[req[r].u].total = uheap[req[r].u].total + 1
                /\ Get(uheap'[req[r].u].perEndpoint, <<req[r].method, req[r].path>>)
                     = Get(uheap[req[r].u].perEndpoint, <<req[r].method, req[r].path>>) + 1
      ]_vars

\* requests admitted for a key in a month, and for an account in all
AdmittedAt(km) ==
    IF km \in DOMAIN admitted
    THEN admitted[km].lite + admitted[km].pro + admitted[km].ov ELSE 0

RECURSIVE AdmittedSum(_)
AdmittedSum(kms) ==
    IF kms = {} THEN 0
    ELSE LET km == CHOOSE x \in kms : TRUE
         IN  AdmittedAt(km) + AdmittedSum(kms \ {km})

AdmittedOfKey(k) == AdmittedSum({km \in DOMAIN admitted : km[1] = k})
AdmittedOfAccount(a) == AdmittedSum({km \in DOMAIN admitted : KeyAccount[km[1]] = a})

\* what usage maps byKey and heap hold for key (or account) x in the period that
\* starts at ps
UsageIn(byKey, heap, x, ps) ==
    IF x \in DOMAIN byKey /\ heap[byKey[x]].periodStart = ps
    THEN heap[byKey[x]]
    ELSE [periodStart |-> ps, total |-> 0, trialUsed |-> 0, perEndpoint |-> <<>>]

MemTotalAt(k, ps) == UsageIn(usageByAK, uheap, k, ps).total

\* no counter holds more than the requests that were admitted
CountedWereAdmitted ==
    /\ \A km \in DOMAIN qt : qt[km] <= AdmittedAt(km)
    /\ \A a \in DOMAIN trial : trial[a] <= AdmittedOfAccount(a)
    /\ \A k \in DOMAIN usageByAK : uheap[usageByAK[k]].total <= AdmittedOfKey(k)
    /\ \A a \in DOMAIN usageByAC : uheap[usageByAC[a]].trialUsed <= AdmittedOfAccount(a)

\* the step answers a request with a denial of the gate
Denial == resp'.pc = "done" /\ resp'.status = 429 /\ resp'.reason \in {"rate", "quota", "trial"}

\* C19: a request denied by the gate (rate, quota or trial) leaves the key's
\* monthly total, its per-endpoint counters and the account's trial usage as they
\* were; no counter ever holds more than the admitted requests.
DeniedNotCounted ==
    /\ []CountedWereAdmitted
    /\ [][Denial =>
            /\ UNCHANGED <<qt, qe, trial>>
            /\ LET k == resp'.p.APIKeyID
                   a == resp'.p.AccountID
                   ps == PeriodStart(resp'.now)
                   was == UsageIn(usageByAK, uheap, k, ps)
                   is == UsageIn(usageByAK', uheap', k, ps)
               IN  /\ is.total = was.total
                   /\ is.perEndpoint = was.perEndpoint
                   /\ UsageIn(usageByAC', uheap', a, ps).trialUsed
                        = UsageIn(usageByAC, uheap, a, ps).trialUsed]_vars

\* a request was denied for quota while the total stood exactly at the quota
QuotaDenialSeen ==
    /\ resp.pc = "done" /\ resp.status = 429 /\ resp.reason = "quota"
    /\ \/ backend = "redis" /\ redisUp /\ Get(qt, TotalKeyOf(resp)) = resp.monthly
       \/ backend = "mem" /\ MemTotalAt(resp.p.APIKeyID, PeriodStart(resp.now)) = resp.monthly

\* C20: a request denied by the rate check still raises the count of its rate
\* window by one, in the shared-store and in the in-process enforcer.
RateDenialConsumesToken ==
    [][(resp'.pc = "done" /\ resp'.status = 429 /\ resp'.reason = "rate") =>
          IF backend = "redis"
          THEN LET rk == <<resp'.p.APIKeyID, resp'.method, resp'.path, clock \div Minute>>
               IN  rl'[rk].count = (IF rk \in DOMAIN rl THEN rl[rk].count ELSE 0) + 1
          ELSE bheap'[resp'.b].count = bheap[resp'.b].count + 1]_vars

(***************************************************************************)
(* The aggregator beside the request path: the shared store, an account     *)
(* with an active subscription, h requests of the month already counted,     *)
(* and no row flushed yet.                                                  *)
(***************************************************************************)
CountedBefore == {0, 3}

InitAgg ==
    /\ HookAtRest
    /\ AggAtRest
    /\ KeyAtRest /\ LimAtRest
    /\ api_keys \in {AllKeysActive, [AllKeysActive EXCEPT !["k2"].status = "revoked"]}
    /\ cfg = [RequireAPIKeys |-> FALSE, EnableAgentHeader |-> FALSE]
    /\ ctxDB = FALSE
    /\ dbUp = TRUE
    /\ ares = IdleAuth
    /\ clock = 0
    /\ backend = "redis"
    /\ redisUp = TRUE
    /\ subs = [a \in Accounts |-> [status |-> "active", plan |-> "lite", overage |-> FALSE]]
    /\ req = [r \in Reqs |-> IdleReq]
    /\ resp = IdleReq
    /\ rl = <<>> /\ rlPassed = <<>>
    /\ \E h \in CountedBefore :
        /\ qt = Singleton(<<HistKey, 0>>, h, h)
        /\ qe = Singleton(<<HistKey, 0, HistMethod, HistPath>>, h, h)
        /\ trial = Singleton(KeyAccount[HistKey], h, h)
        /\ admitted = Singleton(<<HistKey, 0>>, [ZeroAdmitted EXCEPT !["lite"] = h], h)
    /\ trialAdmitted = [a \in Accounts |-> 0]
    /\ buckets = <<>> /\ usageByAK = <<>> /\ usageByAC = <<>>
    /\ bheap = <<>> /\ uheap = <<>>

\* the requests that run beside the aggregator, and the status their handlers return
AggReqs == {1}
AggStatuses == {200}

NextAgg ==
    \/ \E r \in AggReqs :
        \/ \E k \in APIKeys, method \in Methods, path \in PathsOf(r) : Begin(r, k, method, path)
        \/ CheckRate(r)
        \/ QuotaCheck(r)
        \/ TrialCheck(r)
        \/ \E st \in AggStatuses : IncQuota(r, st)
        \/ IncTrialUsage(r)
        \/ RedisHeaders(r)
    \/ Tick
    \/ DbFlip
    \/ FlushList
    \/ \E k \in KeyIDs : FlushGetQuota(k)
    \/ FlushListEndpointUsage
    \/ FlushExec
    \/ AggregatorExit
    \/ Cancel

SpecAgg == InitAgg /\ [][NextAgg]_vars

\* the sum of a row's per-endpoint counts
RECURSIVE SumCounts(_)
SumCounts(f) ==
    IF DOMAIN f = {} THEN 0
    ELSE LET e == CHOOSE x \in DOMAIN f : TRUE
         IN  f[e] + SumCounts([x \in DOMAIN f \ {e} |-> f[x]])

\* C13: in every row of usage_aggregates total_requests is at least the sum of the
\* per_endpoint counts, also when a flush runs while requests are being counted
TotalCoversEndpoints ==
    \A x \in DOMAIN usage_aggregates :
        usage_aggregates[x].total_requests >= SumCounts(usage_aggregates[x].per_endpoint.counts)

\* C14: the total_requests of a row of usage_aggregates never decreases from one
\* flush to a later one; the counter store of the model loses no state, its keys
\* only run out at the TTL IncQuota gave them
TotalNeverDecreases ==
    [][\A x \in DOMAIN usage_aggregates :
          /\ x \in DOMAIN usage_aggregates'
          /\ usage_aggregates'[x].total_requests >= usage_aggregates[x].total_requests]_vars

\* flushes i and i+1 ran back to back: every call of both succeeded, and both found
\* the same counters, the same keys and the same month
QuietPair(i) ==
    /\ i + 1 <= Len(flushLog)
    /\ flushLog[i].quiet /\ flushLog[i + 1].quiet
    /\ flushLog[i].env = flushLog[i + 1].env

\* the row a flush with what e holds leaves for key k
FlushedRow(e, k) ==
    [n |-> 1, period_end |-> PeriodEnd(e.now),
     total_requests |-> Get(e.env[1], <<k, monthKey(e.now)>>),
     per_endpoint |-> [null |-> FALSE,
                       counts |-> [x \in {<<y[3], y[4]>> : y \in {z \in DOMAIN e.env[2] :
                                          z[1] = k /\ z[2] = monthKey(e.now)}} |->
                                     e.env[2][<<k, monthKey(e.now), x[1], x[2]>>]]]]

FirstFlushOfMonth(i) ==
    /\ i + 1 <= Len(flushLog)
    /\ monthKey(flushLog[i].now) < monthKey(flushLog[i + 1].now)
    /\ flushLog[i].quiet /\ flushLog[i + 1].quiet

\* C16: the first flush after the month has changed writes, for every active key,
\* the row of the closed month, which then holds at least what the flush before
\* it read, and the row of the new month
ClosedMonthFlushed ==
    \A i \in 1 .. Len(flushLog) :
        FirstFlushOfMonth(i) =>
            \A k \in {x \in KeyIDs : flushLog[i + 1].env[3][x].status = "active"} :
                LET e == flushLog[i + 1]
                    closed == RowKey(k, flushLog[i].now)
                IN  /\ RowKey(k, e.now) \in e.wrote
                    /\ closed \in e.wrote
                    /\ e.tbl[closed].total_requests >=
                           Get(flushLog[i].env[1], <<k, monthKey(flushLog[i].now)>>)

\* C17: when the context is cancelled the aggregator flushes once more before it
\* stops: a flush begun after the cancellation has written the row of every
\* active key
FinalFlushAtShutdown ==
    agg.pc = "stopped" =>
        \E i \in 1 .. Len(flushLog) :
            /\ flushLog[i].cancelled
            /\ \A k \in ListAllActiveAPIKeys : RowKey(k, flushLog[i].now) \in flushLog[i].wrote

(***************************************************************************)
(* Order and outcome of the admission checks.                               *)
(***************************************************************************)
\* the position a request of the shared-store enforcer is denied from
CheckOf(reason) ==
    IF reason = "rate" THEN "rate" ELSE IF reason = "quota" THEN "quota" ELSE "trial"

\* the first check that fails for the request answered by rs, in the order rate,
\* quota, trial, on the bucket and usage objects the in-process enforcer looked up
FirstFailing(rs, bh, uh) ==
    IF MemRateExceeded(bh[rs.b].count, rs.rpm) THEN "rate"
    ELSE IF uh[rs.u].total >= rs.monthly /\ ~rs.p.OverageEnabled THEN "quota"
    ELSE IF uh[rs.ua].trialUsed >= trialTotalAllowed THEN "trial"
    ELSE "none"

\* C21: both enforcers evaluate rate, then quota, then trial, and a denial carries
\* the reason and Retry-After of the first check that fails in that order
GateOrder ==
    [][Denial =>
          IF backend = "redis"
          THEN \E r \in Reqs : req[r].pc = CheckOf(resp'.reason) /\ req'[r].pc = "gone"
          ELSE resp'.reason = FirstFailing(resp', bheap', uheap')]_vars

\* request r is the only one inside the enforcer
Sequential(r) == \A o \in Reqs \ {r} : req[o].pc \in {"idle", "gone"}

\* C22: with overage disabled and requests one after the other, the request that
\* finds the monthly total at Q - 1 passes the quota check, is admitted when the
\* account has a subscription, and leaves the total at Q; the request that finds
\* the total at Q is denied with 429
QuotaBoundary ==
    [][\A r \in Reqs :
        (Sequential(r) /\ backend = "redis" /\ redisUp /\ ~req[r].p.OverageEnabled
            /\ req'[r] # req[r] /\ monthKey(clock) = monthKey(req[r].now)) =>
            LET rq == req[r]
                q == Get(qt, TotalKeyOf(rq))
            IN  /\ (rq.pc = "quota" /\ q = rq.monthly - 1) => req'[r].pc = "trial"
                /\ (rq.pc = "trial" /\ q = rq.monthly - 1
                        /\ subscriptionActiveCheck(rq.p.AccountID)) => req'[r].pc = "handler"
                /\ (rq.pc = "handler" /\ q = rq.monthly - 1)
                        => Get(qt', TotalKeyOf(rq)) = rq.monthly
                /\ (rq.pc = "quota" /\ q = rq.monthly)
                        => resp'.status = 429 /\ resp'.reason = "quota" /\ req'[r].pc = "gone"]_vars

\* one request was admitted at Q - 1 and counted, the next one was denied at Q
DeniedAtQuota ==
    /\ backend = "redis" /\ redisUp
    /\ \A r \in Reqs : req[r].pc = "gone"
    /\ resp.status = 429 /\ resp.reason = "quota" /\ ~resp.p.OverageEnabled
    /\ Get(qt, TotalKeyOf(resp)) = resp.monthly
    /\ AdmittedOfKey(resp.p.APIKeyID) = resp.monthly

\* the step counts the request held in rq: IncQuota with the store answering, or
\* the second critical section of the in-process enforcer
Counting(r) ==
    \/ backend = "redis" /\ redisUp /\ req[r].pc = "handler" /\ req'[r].pc = "inct"
            /\ monthKey(clock) = monthKey(req[r].now)
    \/ backend = "mem" /\ req[r].pc = "mhandler" /\ req'[r].pc = "gone"

\* C23: a principal with overage enabled is never denied for quota, and its
\* admitted requests raise the monthly total by one also at and beyond the quota
OverageNeverDenied ==
    [][/\ (Denial /\ resp'.p.OverageEnabled) => resp'.reason # "quota"
       /\ \A r \in Reqs :
            (Counting(r) /\ req[r].p.OverageEnabled) =>
                IF backend = "redis"
                THEN Get(qt', TotalKeyOf(req[r])) = Get(qt, TotalKeyOf(req[r])) + 1
                ELSE uheap'[req[r].u].total = uheap[req[r].u].total + 1]_vars

\* a request of a principal with overage was admitted with the total at the quota
\* and counted beyond it
CountedBeyondQuota ==
    /\ backend = "redis" /\ redisUp
    /\ resp.pc = "done" /\ resp.status # 429 /\ resp.p.OverageEnabled
    /\ Get(qt, TotalKeyOf(resp)) > resp.monthly

\* C24: the requests of an account with an active or trialing subscription do not
\* raise the account's trial usage; it is raised after the handler only for an
\* account without one
TrialCountedOnlyWithoutSubscription ==
    [][\A r \in Reqs :
        LET rq == req[r]
            a == rq.p.AccountID
        IN  /\ (backend = "redis" /\ rq.pc = "inct" /\ req'[r].pc = "hdr"
                    /\ subscriptionActiveCheck(a) /\ rq.active)
                    => Get(trial', a) = Get(trial, a)
            /\ (backend = "mem" /\ rq.pc = "mhandler" /\ req'[r].pc = "gone"
                    /\ subscriptionActiveCheck(a) /\ rq.active)
                    => uheap'[rq.ua].trialUsed = uheap[rq.ua].trialUsed]_vars

(***************************************************************************)
(* The middleware chain of main: APIKeyAuth in front of the enforcer, the    *)
(* counters empty.                                                          *)
(***************************************************************************)
InitChain ==
    /\ HookAtRest
    /\ AggAtRest
    /\ KeyAtRest /\ LimAtRest
    /\ api_keys \in {AllKeysActive, [AllKeysActive EXCEPT !["k2"].status = "revoked"]}
    /\ cfg \in [RequireAPIKeys : BOOLEAN, EnableAgentHeader : BOOLEAN]
    /\ ctxDB \in BOOLEAN
    /\ dbUp = TRUE
    /\ ares = IdleAuth
    /\ clock = 0
    /\ backend \in Backends
    /\ redisUp = TRUE
    /\ subs \in [Accounts -> [status : {"none", "active"}, plan : {"lite"}, overage : {FALSE}]]
    /\ req = [r \in Reqs |-> IdleReq]
    /\ resp = IdleReq
    /\ rl = <<>> /\ qt = <<>> /\ qe = <<>> /\ trial = <<>>
    /\ buckets = <<>> /\ usageByAK = <<>> /\ usageByAC = <<>>
    /\ bheap = <<>> /\ uheap = <<>>
    /\ rlPassed = <<>> /\ admitted = <<>>
    /\ trialAdmitted = [a \in Accounts |-> 0]

NextChain ==
    \E r \in Reqs :
        \/ \E h \in Headers, ct \in ClientTypes, method \in Methods, path \in PathsOf(r) :
                Enter(r, h, ct, method, path)
        \/ CheckRate(r)
        \/ QuotaCheck(r)
        \/ TrialCheck(r)
        \/ \E st \in HandlerStatuses : IncQuota(r, st)
        \/ IncTrialUsage(r)
        \/ RedisHeaders(r)
        \/ MemCheck(r)
        \/ \E st \in HandlerStatuses : MemPost(r, st)

SpecChain == InitChain /\ [][NextChain]_vars

\* C25: a request answered 401 by APIKeyAuth does not reach the handler, and it
\* creates or changes no rate bucket, monthly total, per-endpoint counter or
\* trial usage
UnauthenticatedNoCounter ==
    /\ [](resp.status = 401 => resp.handlerStatus = 0)
    /\ [](\A r \in Reqs : req[r].status # 401)
    /\ [][(resp'.pc = "done" /\ resp'.status = 401)
            => UNCHANGED <<rl, qt, qe, trial, buckets, usageByAK, usageByAC, bheap, uheap>>]_vars

\* a request that carried a key was answered 401 after an earlier one was counted
UnauthenticatedSeen ==
    /\ resp.pc = "done" /\ resp.status = 401
    /\ ares.status = 401 /\ ares.key # EmptyKey
    /\ \E km \in DOMAIN qt : qt[km] > 0

\* request r is at a check of the shared-store enforcer whose store call fails
StoreCallFails(r) ==
    /\ backend = "redis" /\ ~redisUp
    /\ \/ req[r].pc = "rate"
       \/ req[r].pc = "quota" /\ ~req[r].p.OverageEnabled
       \/ req[r].pc = "trial" /\ ~subscriptionActiveCheck(req[r].p.AccountID)

\* C26: when the rate check, the quota read or the trial-usage read fails, the
\* request is answered 500, is not admitted, and changes no counter
StoreFailureIs500 ==
    [][\A r \in Reqs :
        (StoreCallFails(r) /\ req'[r] # req[r]) =>
            /\ resp'.pc = "done" /\ resp'.status = 500 /\ req'[r].pc = "gone"
            /\ admitted' = admitted
            /\ UNCHANGED <<rl, qt, qe, trial>>]_vars

(***************************************************************************)
(* The subscription lifecycle under the webhook: a row in any status of the  *)
(* lifecycle, or no row, linked to the provider's subscription or not.       *)
(***************************************************************************)
RowStatuses == {"none", "inactive", "trialing", "active", "past_due"}

InitSub ==
    /\ AuthAtRest
    /\ AggAtRest
    /\ KeyAtRest /\ LimAtRest
    /\ clock = 0
    /\ backend = "redis"
    /\ redisUp = TRUE
    /\ req = [r \in Reqs |-> IdleReq]
    /\ resp = IdleReq
    /\ rl = <<>> /\ qt = <<>> /\ qe = <<>> /\ trial = <<>>
    /\ buckets = <<>> /\ usageByAK = <<>> /\ usageByAC = <<>>
    /\ bheap = <<>> /\ uheap = <<>>
    /\ rlPassed = <<>> /\ admitted = <<>>
    /\ trialAdmitted = [a \in Accounts |-> 0]
    /\ subs \in [Accounts -> [status : RowStatuses, plan : {"lite"}, overage : {FALSE}]]
    /\ stripeIDs \in [Accounts -> {[customer |-> "", subscription |-> ""],
                                   [customer |-> "cus_1", subscription |-> "sub_1"]}]
    /\ \A a \in Accounts : subs[a].status = "none" => stripeIDs[a].subscription = ""
    /\ processed_events = [e \in EventIDs |-> 0]
    /\ meterCalls = <<>>
    /\ delivered = [e \in EventIDs |-> 0]
    /\ hres = IdleHook

NextSub ==
    \/ \E e \in EventIDs, sigOK \in BOOLEAN : stripeWebhook(e, sigOK)
    \/ DbFlip

SpecSub == InitSub /\ [][NextSub]_vars

\* the delivery of e is handled with a verified signature and the database answering
Processed(e) == delivered'[e] = delivered[e] + 1 /\ dbUp

\* the subscription of event e is account a's: the row of a carries its id, or
\* the subscription's metadata names a
SubscriptionOf(e, a) ==
    /\ Events[e].subscription # ""
    /\ \/ stripeIDs[a].subscription = Events[e].subscription
       \/ Events[e].account = a

\* C27: once customer.subscription.deleted for an account's subscription has been
\* processed, the row of that account has status canceled, whatever its status
\* was before
DeletedIsCanceled ==
    [][\A e \in EventIDs, a \in Accounts :
        (Processed(e) /\ Events[e].type = "customer.subscription.deleted"
            /\ subs[a].status # "none" /\ SubscriptionOf(e, a))
            => subs'[a].status = "canceled"]_vars

\* the same for the rows the statement reaches: a row that carries the subscription's
\* id is canceled and keeps its other columns
LinkedDeletedIsCanceled ==
    [][\A e \in EventIDs, a \in Accounts :
        (Processed(e) /\ Events[e].type = "customer.subscription.deleted"
            /\ subs[a].status # "none"
            /\ stripeIDs[a].subscription = Events[e].subscription)
            => subs'[a] = [subs[a] EXCEPT !.status = "canceled"]]_vars

\* e is customer.subscription.created/updated with status active and account_id
\* metadata
ActivatingEvent(e) ==
    /\ Events[e].type \in {"customer.subscription.created", "customer.subscription.updated"}
    /\ Events[e].status = "active" /\ Events[e].account # ""

\* C28: once an activating event that names an account has been processed, the
\* account has a subscription with status active and the plan code and overage
\* flag of the event, also when the account had no row before
ActivationUpserts ==
    [][\A e \in EventIDs :
        (Processed(e) /\ ActivatingEvent(e))
            => subs'[Events[e].account] =
                  [status |-> "active", plan |-> Events[e].plan, overage |-> Events[e].over]]_vars

\* the same for an account that has a row
ActivationUpdates ==
    [][\A e \in EventIDs :
        (Processed(e) /\ ActivatingEvent(e) /\ subs[Events[e].account].status # "none")
            => subs'[Events[e].account] =
                  [status |-> "active", plan |-> Events[e].plan, overage |-> Events[e].over]]_vars

\* the statuses of the subscription lifecycle
LifecycleStatuses == {"inactive", "trialing", "active", "past_due", "canceled"}

\* C29: the status of every subscription row is one of inactive, trialing, active,
\* past_due, canceled, whatever status the processed events carry
StatusInLifecycle ==
    \A a \in Accounts : subs[a].status # "none" => subs[a].status \in LifecycleStatuses

(***************************************************************************)
(* Keys through GenerateAPIKey and back through ParseAPIKey.                *)
(***************************************************************************)
InitKey ==
    /\ GateAtRest /\ subs = [a \in Accounts |-> [status |-> "none", plan |-> "lite", overage |-> FALSE]]
    /\ AuthAtRest /\ HookAtRest /\ AggAtRest /\ LimAtRest
    /\ keygen = IdleKey

NextKey ==
    \/ \E env \in Envs, ri \in Reads(IdLen), rs \in Reads(SecretLen), oki, oks \in BOOLEAN :
            GenerateAPIKey(env, ri, oki, rs, oks)
    \/ ParseGenerated

SpecKey == InitKey /\ [][NextKey]_vars

\* C30: every key GenerateAPIKey(env) produced is parsed by ParseAPIKey, which
\* returns the env given, the id generated and the secret whose hash was stored
GeneratedKeyParses ==
    keygen.pc = "parsed" =>
        /\ keygen.parsed.ok
        /\ keygen.parsed.env = keygen.env
        /\ keygen.parsed.id = keygen.id
        /\ CompareHashAndPassword(keygen.secretHash, keygen.parsed.secret)

\* a generated id or secret holds the character "_"
HoldsSeparator(str) == \E i \in 1 .. Len(str) : str[i] = "_"

\* the same for the keys whose id and secret hold no "_"
PlainKeyParses ==
    (keygen.pc = "parsed" /\ ~HoldsSeparator(keygen.id) /\ ~HoldsSeparator(keygen.secret)) =>
        /\ keygen.parsed.ok
        /\ keygen.parsed.env = keygen.env
        /\ keygen.parsed.id = keygen.id
        /\ CompareHashAndPassword(keygen.secretHash, keygen.parsed.secret)

\* C36: a customer.subscription.created/updated event processed when the row is
\* canceled does not move the row to active
CanceledStaysCanceled ==
    [][\A e \in EventIDs, a \in Accounts :
        (Processed(e) /\ subs[a].status = "canceled"
            /\ Events[e].type \in {"customer.subscription.created",
                                   "customer.subscription.updated"})
            => subs'[a].status # "active"]_vars

\* the case of event e issues a statement that changes the subscriptions table
MutatingEvent(e) ==
    \/ Events[e].type = "checkout.session.completed" /\ Events[e].subscription # ""
    \/ Events[e].type \in {"customer.subscription.created", "customer.subscription.updated",
                           "customer.subscription.deleted"}

\* C39: a delivery whose write to the database fails is not answered 200
FailedWriteNot200 ==
    [][\A e \in EventIDs :
        (delivered'[e] = delivered[e] + 1 /\ MutatingEvent(e) /\ ~dbUp)
            => hres'.status # 200]_vars

(***************************************************************************)
(* invoice.finalized around the turn of the month: the counters of the       *)
(* month that closes belong to requests admitted in it.                      *)
(***************************************************************************)
InvoiceEvents == {e \in EventIDs : Events[e].type = "invoice.finalized"}

InitInvoice ==
    /\ AuthAtRest /\ AggAtRest /\ KeyAtRest /\ LimAtRest
    /\ clock = 0 /\ backend = "redis" /\ redisUp = TRUE
    /\ req = [r \in Reqs |-> IdleReq]
    /\ resp = IdleReq
    /\ rl = <<>> /\ qe = <<>> /\ trial = <<>>
    /\ \E x \in QuotaSamples : qt = [km \in {<<"k1", 0>>, <<"k2", 0>>} |->
                                        IF km[1] = "k1" THEN x[1] ELSE x[2]]
    /\ admitted = [km \in DOMAIN qt |-> [ZeroAdmitted EXCEPT !.ov = qt[km]]]
    /\ buckets = <<>> /\ usageByAK = <<>> /\ usageByAC = <<>>
    /\ bheap = <<>> /\ uheap = <<>>
    /\ rlPassed = <<>>
    /\ trialAdmitted = [a \in Accounts |-> 0]
    /\ subs \in [Accounts -> [status : {"active"}, plan : PlanCodes, overage : BOOLEAN]]
    /\ stripeIDs = [a \in Accounts |-> [customer |-> "cus_1", subscription |-> "sub_1"]]
    /\ processed_events = [e \in EventIDs |-> 0]
    /\ meterCalls = <<>>
    /\ delivered = [e \in EventIDs |-> 0]
    /\ hres = IdleHook

NextInvoice ==
    \/ \E e \in InvoiceEvents, sigOK \in BOOLEAN : stripeWebhook(e, sigOK)
    \/ Tick
    \/ DbFlip

SpecInvoice == InitInvoice /\ [][NextInvoice]_vars

\* the requests admitted in month m for the keys of account a
AdmittedInMonth(a, m) == AdmittedSum({km \in DOMAIN admitted : KeyAccount[km[1]] = a /\ km[2] = m})

\* C40: an invoice.finalized delivered after the month has rolled over reports
\* the overage of the month that closed: the requests admitted in it beyond the
\* plan's quota
ClosedMonthOverageReported ==
    [][\A e \in InvoiceEvents, a \in Accounts :
        (Processed(e) /\ monthKey(clock) > 0
            /\ subs[a].overage /\ stripeIDs[a].subscription = Events[e].subscription
            /\ MeteredLines(e) # {}
            /\ AdmittedInMonth(a, monthKey(clock) - 1) > PlanQuota(a))
            => /\ Len(hres'.calls) = 1
               /\ hres'.calls[1].quantity = AdmittedInMonth(a, monthKey(clock) - 1) - PlanQuota(a)]_vars

\* the same invoice delivered before the month has rolled over
OpenMonthOverageReported ==
    [][\A e \in InvoiceEvents, a \in Accounts :
        (Processed(e) /\ monthKey(clock) = 0
            /\ subs[a].overage /\ stripeIDs[a].subscription = Events[e].subscription
            /\ MeteredLines(e) # {}
            /\ AdmittedInMonth(a, 0) > PlanQuota(a))
            => /\ Len(hres'.calls) = 1
               /\ hres'.calls[1].quantity = AdmittedInMonth(a, 0) - PlanQuota(a)]_vars

(***************************************************************************)
(* FlushOnce while the stores come and go.                                   *)
(***************************************************************************)
NextFlush ==
    \/ FlushList
    \/ \E k \in KeyIDs : FlushGetQuota(k)
    \/ FlushListEndpointUsage
    \/ FlushExec
    \/ RedisFlip
    \/ DbFlip

SpecFlush == InitAgg /\ [][NextFlush]_vars

\* the rows the table held stay as they were
RowsKept == \A x \in DOMAIN usage_aggregates :
                x \in DOMAIN usage_aggregates' /\ usage_aggregates'[x] = usage_aggregates[x]

\* the loop goes on with the keys that remain
LoopGoesOn(k) ==
    /\ agg'.pairs = agg.pairs \ {k} \/ agg' = IdleAgg
    /\ agg.pairs \ {k} # {} => agg'.pc = "loop"

\* C38: when the read of a key's total or the listing of its endpoint counters
\* fails during FlushOnce, the rows of usage_aggregates stay as they were and the
\* loop goes on with the remaining keys
FailedReadKeepsRow ==
    [][/\ (agg.pc = "loop" /\ ~redisUp /\ agg' # agg)
            => RowsKept /\ \E k \in agg.pairs : LoopGoesOn(k)
       /\ (agg.pc = "exec" /\ agg.ep.null /\ agg' # agg)
            => RowsKept /\ LoopGoesOn(agg.key)]_vars

\* the same for the read of the total alone
FailedTotalKeepsRow ==
    [][(agg.pc = "loop" /\ ~redisUp /\ agg' # agg)
            => RowsKept /\ \E k \in agg.pairs : LoopGoesOn(k)]_vars

(***************************************************************************)
(* The aggregator left to run: the ticker fires again and again, the stores  *)
(* answer, the month does not turn.                                          *)
(***************************************************************************)
\* the record of returned flushes is a history; it is emptied when it is full
ForgetLog ==
    /\ agg.pc = "wait"
    /\ Len(flushLog) >= MaxFlushes
    /\ flushLog' = <<>>
    /\ UNCHANGED <<usage_aggregates, agg, ctxDone, gateVars, authVars, hookVars, keyVars, limVars>>

NextConverge ==
    \/ \E r \in AggReqs :
        \/ \E k \in APIKeys, method \in Methods, path \in PathsOf(r) : Begin(r, k, method, path)
        \/ CheckRate(r)
        \/ QuotaCheck(r)
        \/ TrialCheck(r)
        \/ \E st \in AggStatuses : IncQuota(r, st)
        \/ IncTrialUsage(r)
        \/ RedisHeaders(r)
    \/ FlushList
    \/ \E k \in KeyIDs : FlushGetQuota(k)
    \/ FlushListEndpointUsage
    \/ FlushExec
    \/ ForgetLog

\* the ticker keeps firing and the goroutine runs each FlushOnce to its end
SpecConverge ==
    /\ InitAgg
    /\ [][NextConverge]_vars
    /\ WF_vars(FlushList)
    /\ WF_vars(\E k \in KeyIDs : FlushGetQuota(k))
    /\ WF_vars(FlushListEndpointUsage)
    /\ WF_vars(FlushExec)
    /\ WF_vars(ForgetLog)

\* the row of key k for the month of the clock holds what the counter store holds
RowMatches(k) ==
    /\ RowKey(k, clock) \in DOMAIN usage_aggregates
    /\ usage_aggregates[RowKey(k, clock)].total_requests = Get(qt, <<k, monthKey(clock)>>)
    /\ usage_aggregates[RowKey(k, clock)].per_endpoint = ListEndpointUsage(k, clock)

TrialUsedIn(byKey, heap, a) == IF a \in DOMAIN byKey THEN heap[byKey[a]].trialUsed ELSE 0

\* C34: the trial usage of an account never decreases, in the counter store and
\* in the in-process enforcer, whatever time passes
TrialUsageNeverDecreases ==
    [][\A a \in Accounts :
        /\ Get(trial', a) >= Get(trial, a)
        /\ TrialUsedIn(usageByAC', uheap', a) >= TrialUsedIn(usageByAC, uheap, a)]_vars

\* the same for the counter store alone
RedisTrialNeverDecreases ==
    [][\A a \in Accounts : Get(trial', a) >= Get(trial, a)]_vars

\* http.ResponseWriter: a response carries the header map as it is when the handler
\* calls WriteHeader; what the enforcer sets on the map after next.ServeHTTP has
\* returned is not sent
SentHeaders(rs) == IF rs.handlerStatus # 0 THEN NoHeaders ELSE rs.hdr

\* the month's total of the response's key, this request counted
CountedSoFar(rs) ==
    IF backend = "redis" THEN Get(qt, <<rs.p.APIKeyID, monthKey(rs.now)>>)
    ELSE uheap[rs.u].total

\* C33: the response to an admitted request carries the rate and quota headers,
\* and X-Quota-Remaining is max(0, monthly quota - total counted so far)
QuotaHeadersCarried ==
    (resp.pc = "done" /\ resp.handlerStatus # 0) =>
        /\ SentHeaders(resp) # NoHeaders
        /\ SentHeaders(resp).qRemaining = Max(0, resp.monthly - CountedSoFar(resp))

\* the same for the header map the enforcer leaves behind, while the counter
\* store answers
QuotaHeadersSet ==
    (resp.pc = "done" /\ resp.handlerStatus # 0 /\ redisUp) =>
        /\ resp.hdr # NoHeaders
        /\ resp.hdr.qLimit = resp.monthly
        /\ resp.hdr.qRemaining = Max(0, resp.monthly - CountedSoFar(resp))

(***************************************************************************)
(* Rate windows around the turn of a minute: requests half a minute apart.   *)
(***************************************************************************)
InitWindow ==
    /\ AuthAtRest /\ HookAtRest /\ AggAtRest /\ KeyAtRest /\ LimAtRest
    /\ clock = HalfMinute
    /\ backend \in Backends
    /\ redisUp = TRUE
    /\ subs \in [Accounts -> [status : {"active"}, plan : PlanCodes, overage : {FALSE}]]
    /\ req = [r \in Reqs |-> IdleReq]
    /\ resp = IdleReq
    /\ rl = <<>> /\ qt = <<>> /\ qe = <<>> /\ trial = <<>>
    /\ buckets = <<>> /\ usageByAK = <<>> /\ usageByAC = <<>>
    /\ bheap = <<>> /\ uheap = <<>>
    /\ rlPassed = <<>> /\ admitted = <<>>
    /\ trialAdmitted = [a \in Accounts |-> 0]

NextWindow ==
    \/ \E r \in Reqs :
        \/ \E k \in APIKeys, method \in Methods : Begin(r, k, method, HistPath)
        \/ CheckRate(r)
        \/ QuotaCheck(r)
        \/ TrialCheck(r)
        \/ \E st \in HandlerStatuses : IncQuota(r, st)
        \/ IncTrialUsage(r)
        \/ RedisHeaders(r)
        \/ MemCheck(r)
        \/ \E st \in HandlerStatuses : MemPost(r, st)
    \/ HalfTick

SpecWindow == InitWindow /\ [][NextWindow]_vars

\* the rate key of request rq in the minute of the clock
RateKeyOf(rq) == <<rq.p.APIKeyID, rq.method, rq.path, clock \div Minute>>

\* the bucket of request rq
BucketKeyOf(rq) == <<rq.p.APIKeyID, rq.method, rq.path>>

\* C32: a request whose minute-epoch differs from that of the earlier requests on
\* its key, method and path is rate-checked in a fresh window: the counter store's
\* count for it is 1 after its INCR, the in-process bucket starts with it
FreshWindowEachMinute ==
    [][\A r \in Reqs :
        /\ (req[r].pc = "rate" /\ req'[r] # req[r]
                /\ \A x \in DOMAIN rlPassed :
                      <<x[1], x[2], x[3]>> = BucketKeyOf(req[r]) => x[4] # clock \div Minute)
            => rl'[RateKeyOf(req[r])].count = 1
       /\ (req[r].pc = "mcheck" /\ req'[r] # req[r]
                /\ BucketKeyOf(req[r]) \in DOMAIN buckets
                /\ bheap[buckets[BucketKeyOf(req[r])]].windowStart \div Minute
                        # req[r].now \div Minute)
            => bheap'[buckets'[BucketKeyOf(req[r])]].windowStart = req[r].now]_vars

\* the same for the shared-store enforcer alone
RedisFreshWindowEachMinute ==
    [][\A r \in Reqs :
        (req[r].pc = "rate" /\ req'[r] # req[r]
                /\ \A x \in DOMAIN rlPassed :
                      <<x[1], x[2], x[3]>> = BucketKeyOf(req[r]) => x[4] # clock \div Minute)
            => rl'[RateKeyOf(req[r])].count = 1]_vars

(***************************************************************************)
(* Requests to one route with different path parameters.                     *)
(***************************************************************************)
\* raw URL paths of the route GET /v1/alerts/{id}
AlertPaths == {"/v1/alerts/1", "/v1/alerts/2"}

\* the template of the route chi matches a raw path to
RoutePattern(path) == IF path \in AlertPaths THEN "/v1/alerts/{id}" ELSE path

NextRoute ==
    \E r \in Reqs :
        \/ \E k \in APIKeys, method \in Methods, path \in AlertPaths : Begin(r, k, method, path)
        \/ CheckRate(r)
        \/ QuotaCheck(r)
        \/ TrialCheck(r)
        \/ \E st \in HandlerStatuses : IncQuota(r, st)
        \/ IncTrialUsage(r)
        \/ RedisHeaders(r)
        \/ MemCheck(r)
        \/ \E st \in HandlerStatuses : MemPost(r, st)

SpecRoute == InitWindow /\ [][NextRoute]_vars

\* C31: rate windows and per-endpoint counters are keyed by the route template:
\* two counters of one key and method whose paths have the same template are one
\* counter
KeyedByRoute ==
    /\ \A x, y \in DOMAIN rl :
        (x[1] = y[1] /\ x[2] = y[2] /\ x[4] = y[4] /\ RoutePattern(x[3]) = RoutePattern(y[3]))
            => x = y
    /\ \A x, y \in DOMAIN qe :
        (x[1] = y[1] /\ x[2] = y[2] /\ x[3] = y[3] /\ RoutePattern(x[4]) = RoutePattern(y[4]))
            => x = y
    /\ \A x, y \in DOMAIN buckets :
        (x[1] = y[1] /\ x[2] = y[2] /\ RoutePattern(x[3]) = RoutePattern(y[3])) => x = y
    /\ \A i \in 1 .. Len(uheap) : \A x, y \in DOMAIN uheap[i].perEndpoint :
        (x[1] = y[1] /\ RoutePattern(x[2]) = RoutePattern(y[2])) => x = y


(***************************************************************************)
(* The per-IP limiter under concurrent requests.                            *)
(***************************************************************************)
InitLimit ==
    /\ GateAtRest /\ subs = [a \in Accounts |-> [status |-> "none", plan |-> "lite", overage |-> FALSE]]
    /\ AuthAtRest /\ HookAtRest /\ AggAtRest /\ KeyAtRest /\ LimAtRest

NextLimit ==
    \/ \E r \in LimReqs :
        \/ \E addr \in RemoteAddrs : LimBegin(r, addr)
        \/ LimCleanRead(r)
        \/ LimCleanWrite(r)
        \/ LimCheck(r)
        \/ LimAppend(r)
    \/ LimMapFault
    \/ HalfTick

SpecLimit == InitLimit /\ [][NextLimit]_vars

\* requests of one client IP that RateLimit handed to the next handler with
\* their time.Now() in the 60 seconds from t on
PassedIn(ip, t) ==
    {r \in LimReqs : /\ limReq[r].pc = "done" /\ limReq[r].status = 200
                     /\ limReq[r].clientIP = ip
                     /\ limReq[r].now >= t /\ limReq[r].now < t + Minute}

\* C35: RateLimit(N) hands at most N requests of one client IP to the next handler
\* within any 60 seconds, and every request it turns away is answered 429 with
\* Retry-After "60", also when requests of one IP are handled concurrently
AtMostNPerMinute ==
    /\ \A r \in LimReqs :
          limReq[r].pc = "done" =>
              /\ Cardinality(PassedIn(limReq[r].clientIP, limReq[r].now)) <= requestsPerMinute
              /\ limReq[r].status # 200 => (limReq[r].status = 429 /\ limReq[r].retryAfter = "60")

\* C35, for requests that RateLimit handled one after the other
SequentialAtMostNPerMinute == ~limOverlap => AtMostNPerMinute

\* C35, reached: three requests of one client IP in one minute, handled one after
\* the other, two passed and the third turned away
ThirdTurnedAway ==
    /\ ~limOverlap
    /\ \A r \in LimReqs : limReq[r].pc = "done" /\ limReq[r].clientIP = "192.168.1.1"
    /\ Cardinality({r \in LimReqs : limReq[r].status = 429}) = 1

=============================================================================
